---------------------------- MODULE Spec2Model ----------------------------
(***************************************************************************)
(* Content Translation: the translation progress tracker                   *)
(* (modules/mw.cx.TranslationTracker.js) and its pure calculators.         *)
(*                                                                         *)
(* Strings are sequences of one-character strings.  A number returned by   *)
(* a division is kept as the pair <<numerator, denominator>>, so that      *)
(* 0/0 (NaN in JavaScript) stays visible.                                  *)
(***************************************************************************)
EXTENDS Integers, Sequences, FiniteSets, TLC

(***************************************************************************)
(* Bounds of the model.                                                    *)
(***************************************************************************)
\* milliseconds that pass between two instants at which the view is observed
TickMillis == 250
\* number of edits, title changes and resizes of the window
MaxViewEvents == 3
\* seconds that pass between two instants at which the session is observed
TickSeconds == 5
\* longest enumerated input string of the calculator specification
MaxStrLen == 3
\* number of source sections of the translated document
NumSections == 2
\* number of events the session receives after init: changes of the target
\* document, moves of the focus, completed saves
MaxEvents == 2
\* largest section number that is reported to have issues
MaxIssueSection == 3
\* largest number of sentences of the current source section of the store
NumSentences == 3
\* number of actions that are dispatched to the store
MaxStoreActions == 3
\* number of events that the publish button and its listeners receive
MaxPublishEvents == 4

VARIABLES
    \* ---- mw.cx.TranslationTracker fields
    sections,               \* this.sections: section number -> SectionState
    validationDelayQueue,   \* this.validationDelayQueue
    changeQueue,            \* this.changeQueue
    saveQueue,              \* this.saveQueue
    lastFocusedSection,     \* this.lastFocusedSection
    validationTimer,        \* a validationScheduler call is pending
    validationElapsed,      \* seconds since the timer was last armed
    sinceNonFresh,          \* seconds since a change that opened no fresh
                            \* episode was last processed (history)
    sourceLanguage,         \* config.sourceLanguage
    targetLanguage,         \* config.targetLanguage
    \* ---- collaborators
    targetDoc,              \* veTarget: section number -> target node
    initialized,            \* init() has run
    events,                 \* number of events received so far
    lastCall,               \* what the last handler did (history)
    freshContent,           \* content seen when the section's last fresh
                            \* episode was processed (history)
    \* ---- one call of a static calculator
    string1, string2, language, called, result,
    \* ---- the issue registry of the tracker
    nodesWithIssues,        \* this.nodesWithIssues
    issueCalls,             \* id -> state of the last call for it (history)
    \* ---- one pair of sections of the translation view
    sectionPair,            \* the source section, the translation section
    alignCall,              \* what keepAlignment measured and set (history)
    \* ---- ve.init.mw.CXTarget
    contentSourceCache,     \* this.contentSourceCache
    activation,             \* section number -> the promise chain of its
                            \* activation, and what its callbacks did
    alignment,              \* the timer of debounceAlignSectionPairs, and
                            \* the requests and runs so far (history)
    switching,              \* section number -> the requests to the MT
                            \* service that are pending, and what the
                            \* section held when it left a provider (history)
    publish,                \* the publish button and what enables it, and
                            \* whether a publishing is in progress (history)
    \* ---- the section-translation store
    store,                  \* the state of the store module
    storeCall               \* what the last action of the store did (history)

trackerVars == <<sections, validationDelayQueue, changeQueue, saveQueue,
                 lastFocusedSection, validationTimer, validationElapsed,
                 sinceNonFresh, sourceLanguage, targetLanguage, targetDoc,
                 initialized, events, lastCall, freshContent>>
calcVars == <<string1, string2, language, called, result>>
issueVars == <<nodesWithIssues, issueCalls>>
alignVars == <<sectionPair, alignCall>>
targetVars == <<contentSourceCache, activation, alignment, switching, publish>>
storeVars == <<store, storeCall>>
vars == <<trackerVars, calcVars, issueVars, alignVars, targetVars, storeVars>>

(***************************************************************************)
(* Numbers                                                                 *)
(***************************************************************************)
\* the literal 0 and the literal 1 as returned by the calculators
Zero == <<0, 1>>
One == <<1, 1>>
\* a / b as JavaScript computes it: 0 / 0 is NaN
Divide(a, b) == <<a, b>>
IsNaN(r) == r[1] = 0 /\ r[2] = 0
\* r > t for a ratio r and a finite positive threshold t; false for NaN
GreaterThan(r, t) == ~IsNaN(r) /\ r[1] * t[2] > t[1] * r[2]

(***************************************************************************)
(* Strings                                                                 *)
(***************************************************************************)
Whitespace == {" ", "\n"}
\* languages whose script $.uls.data lists in scriptgroups.CJK
CJKLanguages == {"ja", "zh"}
Languages == {"en", "ja"}

\* string.match( /\S+/g ) || []
RECURSIVE matchNonWhitespace(_, _, _)
matchNonWhitespace(string, run, tokens) ==
    IF string = <<>>
    THEN IF run = <<>> THEN tokens ELSE Append(tokens, run)
    ELSE IF Head(string) \in Whitespace
         THEN matchNonWhitespace(Tail(string), <<>>,
                  IF run = <<>> THEN tokens ELSE Append(tokens, run))
         ELSE matchNonWhitespace(Tail(string), Append(run, Head(string)), tokens)

\* string.split( '' )
splitCharacters(string) == [i \in 1..Len(string) |-> <<string[i]>>]

tokenise(string, lang) ==
    IF lang \in CJKLanguages
    THEN splitCharacters(string)
    ELSE matchNonWhitespace(string, <<>>, <<>>)

\* smallSet.indexOf( token ) >= 0
Includes(tokens, token) == \E j \in 1..Len(tokens) : tokens[j] = token

\* a plausible slip: a progress above 1 is clamped to 1
calculateSectionTranslationProgressClamped(s1, s2, lang) ==
    IF s1 = s2 THEN One
    ELSE IF s1 = <<>> \/ s2 = <<>> THEN Zero
    ELSE IF Len(tokenise(s2, lang)) > Len(tokenise(s1, lang)) THEN One
    ELSE Divide(Len(tokenise(s2, lang)), Len(tokenise(s1, lang)))

calculateSectionTranslationProgress(s1, s2, lang) ==
    IF s1 = s2 THEN One
    ELSE IF s1 = <<>> \/ s2 = <<>> THEN Zero
    ELSE Divide(Len(tokenise(s2, lang)), Len(tokenise(s1, lang)))

\* a plausible slip: the tokens of the smaller sequence are the ones filtered
calculateUnmodifiedContentSmallFiltered(s1, s2, lang) ==
    IF s1 = <<>> \/ s2 = <<>> THEN Zero
    ELSE IF s1 = s2 THEN One
    ELSE LET tokens1 == tokenise(s1, lang)
             tokens2 == tokenise(s2, lang)
             swap == Len(tokens2) > Len(tokens1)
             bigSet == IF swap THEN tokens2 ELSE tokens1
             smallSet == IF swap THEN tokens1 ELSE tokens2
             unmodifiedTokens ==
                 SelectSeq(smallSet, LAMBDA token : Includes(bigSet, token))
         IN  Divide(Len(unmodifiedTokens), Len(bigSet))

calculateUnmodifiedContent(s1, s2, lang) ==
    IF s1 = <<>> \/ s2 = <<>> THEN Zero
    ELSE IF s1 = s2 THEN One
    ELSE LET tokens1 == tokenise(s1, lang)
             tokens2 == tokenise(s2, lang)
             swap == Len(tokens2) > Len(tokens1)
             bigSet == IF swap THEN tokens2 ELSE tokens1
             smallSet == IF swap THEN tokens1 ELSE tokens2
             unmodifiedTokens ==
                 SelectSeq(bigSet, LAMBDA token : Includes(smallSet, token))
         IN  Divide(Len(unmodifiedTokens), Len(bigSet))


(***************************************************************************)
(* HTML content.  An element of an HTML string is a character or a tag;    *)
(* null is kept apart from the empty string.                               *)
(***************************************************************************)
Tags == {"<p>", "</p>"}
NullHtml == <<"null">>
EmptyString == <<>>
\* !html
IsFalsy(html) == html = NullHtml \/ html = EmptyString

SourceAlphabet == <<"a", "b", "c", "d", "e", "f", "g", "h", "i", "j">>
GoogleAlphabet == <<"A", "B", "C", "D", "E", "F", "G", "H", "I", "J">>

\* the first k words of an alphabet, separated by blanks
JoinWords(alphabet, k) ==
    [i \in 1..(IF k = 0 THEN 0 ELSE 2 * k - 1) |->
        IF i % 2 = 1 THEN alphabet[(i + 1) \div 2] ELSE " "]
\* a paragraph holding the first k words of an alphabet
Paragraph(alphabet, k) == <<"<p>">> \o JoinWords(alphabet, k) \o <<"</p>">>

SectionNumbers == 1..NumSections
\* queue[ i ] read past the end of the array
Undefined == 0
NoProvider == "null"
MTProviders == {"Google"}
Providers == MTProviders \cup {"source"}
\* word counts an edit can leave in a section
EditSizes == {7, 8}
FullSize == Len(SourceAlphabet)
ChildTypes == {"paragraph", "mwHeading"}

\* source sections: the odd ones have ten words, the even ones nine
SourceHtml(n) ==
    Paragraph(SourceAlphabet, IF n % 2 = 1 THEN FullSize ELSE FullSize - 1)
AlphabetOf(provider) ==
    IF provider = "Google" THEN GoogleAlphabet ELSE SourceAlphabet
\* what a provider puts into section n
ProviderContent(provider, n) ==
    IF provider = "source" THEN SourceHtml(n)
    ELSE Paragraph(AlphabetOf(provider), FullSize)

(***************************************************************************)
(* mw.cx.dm.SectionState                                                   *)
(***************************************************************************)
TextOf(html) ==
    IF html = NullHtml THEN EmptyString
    ELSE SelectSeq(html, LAMBDA c : c \notin Tags)
Content(html) == [html |-> html, text |-> TextOf(html)]

SectionState(n) ==
    [ source |-> Content(NullHtml),
      unmodifiedMT |-> Content(NullHtml),
      userTranslation |-> Content(NullHtml),
      currentMTProvider |-> NoProvider,
      unmodifiedPercentage |-> Zero,
      translationProgressPercentage |-> Zero,
      isUnmodifiedMTSaved |-> FALSE ]

setSource(state, html) == [state EXCEPT !.source = Content(html)]
setUserTranslation(state, html) == [state EXCEPT !.userTranslation = Content(html)]
setUnmodifiedMT(state, html) == [state EXCEPT !.unmodifiedMT = Content(html)]
markUnmodifiedMTSaved(state) == [state EXCEPT !.isUnmodifiedMTSaved = TRUE]
\* a change of provider opens a new episode: the baseline of the old one goes
setCurrentMTProvider(state, provider) ==
    IF provider = state.currentMTProvider THEN state
    ELSE [state EXCEPT !.currentMTProvider = provider,
                       !.unmodifiedMT = Content(NullHtml),
                       !.isUnmodifiedMTSaved = FALSE]
isModified(state) == state.userTranslation.html # state.unmodifiedMT.html

(***************************************************************************)
(* The target document of the editor (veTarget)                            *)
(***************************************************************************)
NoNode ==
    [ kind |-> "none", source |-> NoProvider, html |-> NullHtml,
      childType |-> "none", issues |-> <<>>, hasUserModifications |-> FALSE ]
PlaceholderNode == [NoNode EXCEPT !.kind = "placeholder"]
CXSectionNode(provider, html, childType) ==
    [ kind |-> "section", source |-> provider, html |-> html,
      childType |-> childType, issues |-> <<>>, hasUserModifications |-> FALSE ]

\* ve.dm.converter.getDomFromNode( sectionModel ).body.innerHTML
getDomFromNode(node) == node.html


(***************************************************************************)
(* The tracker.  A handler is a function of the world w: the tracker's     *)
(* fields, the editor's document, whether an exception is propagating      *)
(* (threw), the handlers the editor runs synchronously from inside its     *)
(* own methods (reentry), and a log of what the handler did.               *)
(***************************************************************************)
\* A value 0.8 means we tolerate 80% unmodified machine translation
unmodifiedMTThreshold == <<8, 10>>
\* A value 0.6 means we tolerate 60% unmodified text copied from source
unmodifiedSourceThreshold == <<6, 10>>

NoProgress == [any |-> 0, human |-> 0, mt |-> 0, total |-> 0]
EmptyLog == [ processed |-> <<>>, visited |-> <<>>, validated |-> <<>>,
              spliced |-> <<>>, warned |-> <<>>, progress |-> NoProgress,
              errors |-> <<>>, attached |-> <<>> ]

Throw(w) == [w EXCEPT !.threw = TRUE]
Logged(w, field, entry) == [w EXCEPT !.log[field] = Append(@, entry)]

\* array[ i ], 1-based; undefined past the end
At(queue, i) == IF i \in 1..Len(queue) THEN queue[i] ELSE Undefined
\* array.indexOf( x ) >= 0
InQueue(queue, x) == \E j \in 1..Len(queue) : queue[j] = x
\* array.splice( i, 1 ), 1-based; nothing happens past the end
Splice(queue, i) ==
    IF i \in 1..Len(queue)
    THEN SubSeq(queue, 1, i - 1) \o SubSeq(queue, i + 1, Len(queue))
    ELSE queue
\* the log of the entry that splice( i, 1 ) took out of a queue, if any
SplicedLog(w, name, queue, i) ==
    IF i \in 1..Len(queue)
    THEN Logged(w, "spliced", [queue |-> name, section |-> queue[i]])
    ELSE w
\* array.indexOf( x ), 1-based; 0 when absent
IndexOf(queue, x) ==
    IF InQueue(queue, x)
    THEN CHOOSE j \in 1..Len(queue) :
             queue[j] = x /\ \A k \in 1..(j - 1) : queue[k] # x
    ELSE 0

getTargetSectionNodeFromSectionNumber(w, sectionNumber) ==
    IF sectionNumber \in SectionNumbers THEN w.targetDoc[sectionNumber] ELSE NoNode

pushToChangeQueueUnchecked(w, sectionNumber) ==
    [w EXCEPT !.changeQueue = Append(@, sectionNumber)]

pushToChangeQueue(w, sectionNumber) ==
    IF ~InQueue(w.changeQueue, sectionNumber)
    THEN [w EXCEPT !.changeQueue = Append(@, sectionNumber)]
    ELSE w

pushToSaveQueue(w, sectionNumber) ==
    IF ~InQueue(w.saveQueue, sectionNumber)
    THEN [w EXCEPT !.saveQueue = Append(@, sectionNumber)]
    ELSE w

pushToValidationQueue(w, sectionNumber) ==
    IF ~InQueue(w.validationDelayQueue, sectionNumber)
    THEN [w EXCEPT !.validationDelayQueue = Append(@, sectionNumber)]
    ELSE w

\* a plausible slip: splice( -1, 1 ) for an absent section takes the last entry
removeSectionFromSaveQueueUnchecked(w, sectionNumber) ==
    LET index == IndexOf(w.saveQueue, sectionNumber)
    IN  IF index >= 1
        THEN [w EXCEPT !.saveQueue = Splice(@, index)]
        ELSE Logged([w EXCEPT !.saveQueue = Splice(@, Len(@))],
                    "warned", sectionNumber)

removeSectionFromSaveQueue(w, sectionNumber) ==
    LET index == IndexOf(w.saveQueue, sectionNumber)
    IN  IF index >= 1
        THEN [w EXCEPT !.saveQueue = Splice(@, index)]
        ELSE Logged(w, "warned", sectionNumber)

removeSectionFromValidationQueue(w, sectionNumber) ==
    LET index == IndexOf(w.validationDelayQueue, sectionNumber)
    IN  IF index >= 1
        THEN [w EXCEPT !.validationDelayQueue = Splice(@, index)]
        ELSE w

\* the wait of the validation timer, in seconds
ValidationDelay == 15
\* OO.ui.debounce( processValidationQueue, 15 * 1000 ): the timer is armed
\* anew by every call
\* a scheduler that leaves a pending timer as it is
validationSchedulerKeepsTimer(w) ==
    IF w.validationTimer THEN w
    ELSE [w EXCEPT !.validationTimer = TRUE, !.validationElapsed = 0]

validationScheduler(w) ==
    [w EXCEPT !.validationTimer = TRUE, !.validationElapsed = 0]

RECURSIVE processValidationQueue(_)
RECURSIVE processChangeQueue(_)

\* the rest of a handler runs unless an exception is propagating
Continue(w, rest(_)) == IF w.threw THEN w ELSE rest(w)

setLastFocusedSection(w, focusedSectionNumber) ==
    [w EXCEPT !.lastFocusedSection = focusedSectionNumber]

onSectionFocus(w, focusedSectionNumber) ==
    Continue(IF w.lastFocusedSection # focusedSectionNumber
             THEN processValidationQueue(w)
             ELSE w,
             LAMBDA w1 : setLastFocusedSection(w1, focusedSectionNumber))

(***************************************************************************)
(* Methods of the editor's section node.  They emit events synchronously;  *)
(* a listener may call back into the tracker before the method returns.    *)
(***************************************************************************)
callListener(w, listener) ==
    IF listener.kind = "focus"
    THEN onSectionFocus(w, listener.section)
    ELSE IF listener.kind = "processChangeQueue"
    THEN processChangeQueue(w)
    ELSE pushToChangeQueue(w, listener.section)

emitSynchronously(w) ==
    IF w.reentry = <<>> THEN w
    ELSE callListener([w EXCEPT !.reentry = Tail(@)], Head(w.reentry))

\* an issue is kept once per name
addTranslationIssues(w, sectionNumber, name) ==
    emitSynchronously(
        [w EXCEPT !.targetDoc[sectionNumber].issues =
            Append(SelectSeq(@, LAMBDA x : x # name), name)])

resolveTranslationIssues(w, sectionNumber, name) ==
    emitSynchronously(
        [w EXCEPT !.targetDoc[sectionNumber].issues =
            SelectSeq(@, LAMBDA x : x # name)])

setHasUserModifications(w, sectionNumber, value) ==
    [w EXCEPT !.targetDoc[sectionNumber].hasUserModifications = value]


(***************************************************************************)
(* Progress, validation                                                    *)
(***************************************************************************)
\* a plausible slip: only the translation progress is recomputed
updateSectionProgressOnly(w, sectionNumber) ==
    [w EXCEPT !.sections[sectionNumber].translationProgressPercentage =
                  calculateSectionTranslationProgress(
                      w.sections[sectionNumber].source.text,
                      w.sections[sectionNumber].userTranslation.text,
                      w.targetLanguage)]

updateSectionProgress(w, sectionNumber) ==
    [w EXCEPT !.sections[sectionNumber].unmodifiedPercentage =
                  calculateUnmodifiedContent(
                      w.sections[sectionNumber].unmodifiedMT.text,
                      w.sections[sectionNumber].userTranslation.text,
                      w.targetLanguage),
              !.sections[sectionNumber].translationProgressPercentage =
                  calculateSectionTranslationProgress(
                      w.sections[sectionNumber].source.text,
                      w.sections[sectionNumber].userTranslation.text,
                      w.targetLanguage)]

\* a plausible slip: one threshold for every provider
getMTThresholdForSectionSingle(sectionState) == unmodifiedMTThreshold

getMTThresholdForSection(sectionState) ==
    IF sectionState.currentMTProvider = "source"
    THEN unmodifiedSourceThreshold
    ELSE unmodifiedMTThreshold

\* a plausible slip: the check of the section's length is missing
validateForMTAbuseNoFloor(w, sectionNumber) ==
    GreaterThan(w.sections[sectionNumber].unmodifiedPercentage,
                getMTThresholdForSection(w.sections[sectionNumber]))

validateForMTAbuse(w, sectionNumber) ==
    IF Len(tokenise(w.sections[sectionNumber].source.text, w.sourceLanguage)) < 10
    THEN FALSE
    ELSE GreaterThan(w.sections[sectionNumber].unmodifiedPercentage,
                     getMTThresholdForSection(w.sections[sectionNumber]))

setMTAbuseWarning(w, sectionNumber) ==
    addTranslationIssues(w, sectionNumber, "mt-abuse")

clearMTAbuseWarning(w, sectionNumber) ==
    IF getTargetSectionNodeFromSectionNumber(w, sectionNumber).kind = "section"
    THEN resolveTranslationIssues(w, sectionNumber, "mt-abuse")
    ELSE w

ExcludedTypes == { "cxBlockImage", "mwBlockImage", "cxTransclusionBlock",
                   "mwTransclusionBlock", "mwReferencesList", "mwTable",
                   "list", "mwHeading" }
isExcludedFromValidation(sectionModel) == sectionModel.childType \in ExcludedTypes

\* what one pass of the validation loop saw and decided
ValidationRecord(w, sectionNumber, verdict) ==
    [ section |-> sectionNumber,
      verdict |-> verdict,
      percentage |-> w.sections[sectionNumber].unmodifiedPercentage,
      provider |-> w.sections[sectionNumber].currentMTProvider,
      baseline |-> w.sections[sectionNumber].unmodifiedMT.html,
      current |-> w.sections[sectionNumber].userTranslation.html,
      episode |-> w.freshContent[sectionNumber],
      issuesBefore |-> w.targetDoc[sectionNumber].issues ]

\* a plausible slip: a section under the threshold keeps its warning
validateSectionNeverCleared(w, sectionNumber) ==
    IF validateForMTAbuse(w, sectionNumber)
    THEN setMTAbuseWarning(
             Logged(w, "validated", ValidationRecord(w, sectionNumber, "flagged")),
             sectionNumber)
    ELSE Logged(w, "validated", ValidationRecord(w, sectionNumber, "cleared"))

\* the body of the validation loop for a section that is not excluded
validateSection(w, sectionNumber) ==
    IF validateForMTAbuse(w, sectionNumber)
    THEN setMTAbuseWarning(
             Logged(w, "validated", ValidationRecord(w, sectionNumber, "flagged")),
             sectionNumber)
    ELSE clearMTAbuseWarning(
             Logged(w, "validated", ValidationRecord(w, sectionNumber, "cleared")),
             sectionNumber)

\* this.validationDelayQueue.splice( i, 1 )
spliceValidationQueue(w, i) ==
    SplicedLog([w EXCEPT !.validationDelayQueue = Splice(@, i)],
               "validation", w.validationDelayQueue, i)

\* one pass of the loop: the entry at i is validated and index i is spliced
validateEntry(w, i, sectionNumber, sectionModel) ==
    IF sectionModel.kind # "section"
    THEN \* sectionModel.getChildNodeName is not there: TypeError
         Throw(w)
    ELSE Continue(IF ~isExcludedFromValidation(sectionModel)
                  THEN validateSection(Logged(w, "visited", sectionNumber),
                                       sectionNumber)
                  ELSE Logged(w, "visited", sectionNumber),
                  LAMBDA w1 : spliceValidationQueue(w1, i))

\* while ( i-- ) { ... this.validationDelayQueue.splice( i, 1 ); }
RECURSIVE validationLoop(_, _)
validationLoop(w, i) ==
    IF i = 0 \/ w.threw THEN w
    ELSE validationLoop(
             validateEntry(w, i, At(w.validationDelayQueue, i),
                 getTargetSectionNodeFromSectionNumber(w,
                     At(w.validationDelayQueue, i))),
             i - 1)

processValidationQueue(w) == validationLoop(w, Len(w.validationDelayQueue))


(***************************************************************************)
(* Change processing                                                       *)
(***************************************************************************)
\* what one call of processSectionChange found and did
ChangeRecord(sectionNumber, outcome, newContent, currentMTProvider) ==
    [ section |-> sectionNumber, outcome |-> outcome, content |-> newContent,
      previous |-> currentMTProvider ]

\* lines 293-297: the changed content becomes the user's translation
updateUserTranslation(sectionState, newContent) ==
    IF newContent # sectionState.userTranslation.html
    THEN setUserTranslation(sectionState, newContent)
    ELSE sectionState

\* a plausible slip: the baseline is captured on every change
applyContentAlwaysCapture(sectionState, newMTProvider, newContent) ==
    updateUserTranslation(
        setUnmodifiedMT(
            setCurrentMTProvider(
                IF sectionState.currentMTProvider # newMTProvider
                THEN setUserTranslation(
                         setCurrentMTProvider(sectionState, newMTProvider), NullHtml)
                ELSE sectionState,
                newMTProvider),
            newContent),
        newContent)

\* lines 287-292: the baseline is captured if there is none
captureUnmodifiedMT(sectionState, newMTProvider, newContent) ==
    IF IsFalsy(sectionState.unmodifiedMT.html)
    THEN setUnmodifiedMT(setCurrentMTProvider(sectionState, newMTProvider),
                         newContent)
    ELSE sectionState

\* a plausible slip: the baseline is captured from the content stored before
captureStaleUnmodifiedMT(sectionState, newMTProvider, newContent) ==
    IF IsFalsy(sectionState.unmodifiedMT.html)
    THEN setUnmodifiedMT(setCurrentMTProvider(sectionState, newMTProvider),
                         IF IsFalsy(sectionState.userTranslation.html)
                         THEN newContent
                         ELSE sectionState.userTranslation.html)
    ELSE sectionState

applyContentStaleCapture(sectionState, newMTProvider, newContent) ==
    updateUserTranslation(
        captureStaleUnmodifiedMT(
            IF sectionState.currentMTProvider # newMTProvider
            THEN setCurrentMTProvider(sectionState, newMTProvider)
            ELSE sectionState,
            newMTProvider, newContent),
        newContent)

\* lines 273-297: provider comparison, baseline capture, content update
applyContent(sectionState, newMTProvider, newContent) ==
    updateUserTranslation(
        captureUnmodifiedMT(
            IF sectionState.currentMTProvider # newMTProvider
            THEN setUserTranslation(
                     setCurrentMTProvider(sectionState, newMTProvider), NullHtml)
            ELSE sectionState,
            newMTProvider, newContent),
        newContent)

\* a plausible slip: the record of a section that became a placeholder is
\* deleted
resetSectionDeleted(w, sectionNumber) ==
    Logged(
        removeSectionFromValidationQueue(
            removeSectionFromSaveQueue(
                [w EXCEPT !.sections =
                    [n \in DOMAIN @ \ {sectionNumber} |-> @[n]]],
                sectionNumber),
            sectionNumber),
        "processed",
        ChangeRecord(sectionNumber, "placeholder", NullHtml,
                     w.sections[sectionNumber].currentMTProvider))

\* a plausible slip: the section stays queued for validation
resetSectionStillQueued(w, sectionNumber) ==
    Logged(
        removeSectionFromSaveQueue(
            [w EXCEPT !.sections[sectionNumber] =
                setUserTranslation(setCurrentMTProvider(@, NoProvider),
                                   EmptyString)],
            sectionNumber),
        "processed",
        ChangeRecord(sectionNumber, "placeholder", NullHtml,
                     w.sections[sectionNumber].currentMTProvider))

\* lines 263-271: the node is a placeholder
resetSection(w, sectionNumber) ==
    Logged(
        removeSectionFromValidationQueue(
            removeSectionFromSaveQueue(
                [w EXCEPT !.sections[sectionNumber] =
                    setUserTranslation(setCurrentMTProvider(@, NoProvider),
                                       EmptyString)],
                sectionNumber),
            sectionNumber),
        "processed",
        ChangeRecord(sectionNumber, "placeholder", NullHtml,
                     w.sections[sectionNumber].currentMTProvider))

\* lines 273-305: the section state takes the content; the node and the
\* derived fields follow
storeSectionState(w, sectionNumber, newState, freshTranslation, newContent) ==
    Logged(
        updateSectionProgress(
            setHasUserModifications(
                [w EXCEPT !.sections[sectionNumber] = newState,
                          !.freshContent[sectionNumber] =
                              IF freshTranslation THEN newContent ELSE @,
                          !.sinceNonFresh =
                              IF freshTranslation THEN @ ELSE 0],
                sectionNumber, isModified(newState)),
            sectionNumber),
        "processed",
        ChangeRecord(sectionNumber,
                     IF freshTranslation THEN "fresh" ELSE "change",
                     newContent, w.sections[sectionNumber].currentMTProvider))

\* lines 307-316: the section is queued for validation
queueForValidation(w, sectionNumber, freshTranslation) ==
    IF freshTranslation
    THEN Continue(processValidationQueue(w),
                  LAMBDA w1 : pushToValidationQueue(w1, sectionNumber))
    ELSE validationScheduler(pushToValidationQueue(w, sectionNumber))

\* lines 273-316: the node is a section
changeSection(w, sectionNumber, sectionModel) ==
    queueForValidation(
        storeSectionState(w, sectionNumber,
            applyContent(w.sections[sectionNumber], sectionModel.source,
                         getDomFromNode(sectionModel)),
            w.sections[sectionNumber].currentMTProvider # sectionModel.source,
            getDomFromNode(sectionModel)),
        sectionNumber,
        w.sections[sectionNumber].currentMTProvider # sectionModel.source)

\* a plausible slip: a section without a node is purged from the queues
processSectionChangePurgesMissing(w, sectionNumber) ==
    IF getTargetSectionNodeFromSectionNumber(w, sectionNumber).kind = "none"
    THEN Logged(removeSectionFromValidationQueue(
                    removeSectionFromSaveQueue(w, sectionNumber), sectionNumber),
                "processed",
                ChangeRecord(sectionNumber, "null", NullHtml, NoProvider))
    ELSE IF getTargetSectionNodeFromSectionNumber(w, sectionNumber).kind
                # "section"
    THEN resetSection(w, sectionNumber)
    ELSE changeSection(w, sectionNumber,
             getTargetSectionNodeFromSectionNumber(w, sectionNumber))

processSectionChange(w, sectionNumber) ==
    IF getTargetSectionNodeFromSectionNumber(w, sectionNumber).kind = "none"
    THEN Logged(w, "processed",
                ChangeRecord(sectionNumber, "null", NullHtml, NoProvider))
    ELSE IF getTargetSectionNodeFromSectionNumber(w, sectionNumber).kind
                # "section"
    THEN \* a PlaceholderNode, by undo
         resetSection(w, sectionNumber)
    ELSE changeSection(w, sectionNumber,
             getTargetSectionNodeFromSectionNumber(w, sectionNumber))

\* this.changeQueue.splice( i, 1 )
spliceChangeQueue(w, i) ==
    SplicedLog([w EXCEPT !.changeQueue = Splice(@, i)],
               "change", w.changeQueue, i)

\* while ( i-- ) { processSectionChange( q[ i ] ); q.splice( i, 1 ); }
RECURSIVE changeLoop(_, _)
changeLoop(w, i) ==
    IF i = 0 \/ w.threw THEN w
    ELSE changeLoop(
             Continue(processSectionChange(w, At(w.changeQueue, i)),
                      LAMBDA w1 : spliceChangeQueue(w1, i)),
             i - 1)

processChangeQueue(w) == changeLoop(w, Len(w.changeQueue))


(***************************************************************************)
(* Aggregate progress                                                      *)
(***************************************************************************)
\* a plausible slip: every section with content counts as edited by a human
countSectionAllHuman(sectionState, counts) ==
    IF sectionState.userTranslation.text = EmptyString
    THEN counts
    ELSE [counts EXCEPT !.any = @ + 1, !.human = @ + 1]

\* a plausible slip: a section with a baseline counts as translated although
\* its content was blanked
countSectionBlankCounted(sectionState, counts) ==
    IF sectionState.userTranslation.text = EmptyString
    THEN [counts EXCEPT !.any = @ + 1]
    ELSE IF ~isModified(sectionState)
    THEN [counts EXCEPT !.any = @ + 1, !.mt = @ + 1]
    ELSE [counts EXCEPT !.any = @ + 1, !.human = @ + 1]

\* the body of the loop over this.sections, after the recalculation
countSection(sectionState, counts) ==
    IF sectionState.userTranslation.text = EmptyString
    THEN counts
    ELSE IF ~(sectionState.unmodifiedMT.text # EmptyString
              \/ sectionState.userTranslation.text # EmptyString)
    THEN counts
    ELSE IF ~isModified(sectionState)
    THEN [counts EXCEPT !.any = @ + 1, !.mt = @ + 1]
    ELSE IF sectionState.userTranslation.text # EmptyString
    THEN [counts EXCEPT !.any = @ + 1, !.human = @ + 1]
    ELSE [counts EXCEPT !.any = @ + 1]

\* the section is classified and its count added to the result so far
countInto(w, sectionNumber) ==
    [w EXCEPT !.log.progress = countSection(w.sections[sectionNumber], @)]

\* for ( sectionNumber in this.sections ) { ... }
RECURSIVE progressLoop(_, _)
progressLoop(w, sectionNumber) ==
    IF w.threw \/ sectionNumber > NumSections THEN w
    ELSE IF sectionNumber \notin DOMAIN w.sections
    THEN progressLoop(w, sectionNumber + 1)
    ELSE progressLoop(
             Continue(Continue(processChangeQueue(w),
                               LAMBDA w1 : updateSectionProgress(w1, sectionNumber)),
                      LAMBDA w2 : countInto(w2, sectionNumber)),
             sectionNumber + 1)

getTranslationProgress(w) ==
    progressLoop([w EXCEPT !.log.progress =
                     [NoProgress EXCEPT !.total = Cardinality(DOMAIN w.sections)]],
                 1)

(***************************************************************************)
(* Initialisation from the translation model                               *)
(***************************************************************************)
NoEntry == [engine |-> NoProvider, content |-> NullHtml]
NoUnit == [saved |-> FALSE, user |-> NoEntry, mt |-> NoEntry]

\* lines 145-148: the user's translation of a saved unit
restoreUserTranslation(sectionState, savedTranslationUnit) ==
    IF savedTranslationUnit.saved /\ savedTranslationUnit.user # NoEntry
    THEN setUserTranslation(
             setCurrentMTProvider(sectionState, savedTranslationUnit.user.engine),
             savedTranslationUnit.user.content)
    ELSE sectionState

\* lines 149-154: the unmodified machine translation of a saved unit
restoreUnmodifiedMT(sectionState, savedTranslationUnit) ==
    IF savedTranslationUnit.saved /\ savedTranslationUnit.mt # NoEntry
    THEN markUnmodifiedMTSaved(
             setUnmodifiedMT(
                 setCurrentMTProvider(sectionState, savedTranslationUnit.mt.engine),
                 savedTranslationUnit.mt.content))
    ELSE sectionState

\* lines 141-154: the state of one section, from its saved unit if any
restoreSectionState(sectionNumber, savedTranslationUnit) ==
    restoreUnmodifiedMT(
        restoreUserTranslation(
            setSource(SectionState(sectionNumber), SourceHtml(sectionNumber)),
            savedTranslationUnit),
        savedTranslationUnit)

\* lines 155-159: a restored section is queued; the state is stored
storeRestored(w, sectionNumber, savedTranslationUnit) ==
    [w EXCEPT !.sections = @ @@ (sectionNumber :>
                  restoreSectionState(sectionNumber, savedTranslationUnit)),
              !.changeQueue = IF savedTranslationUnit.saved
                              THEN Append(@, sectionNumber)
                              ELSE @]

RECURSIVE restoreLoop(_, _, _)
restoreLoop(w, savedTranslationUnits, sectionNumber) ==
    IF sectionNumber > NumSections THEN w
    ELSE restoreLoop(
             storeRestored(w, sectionNumber, savedTranslationUnits[sectionNumber]),
             savedTranslationUnits, sectionNumber + 1)

getSectionsTranslatedFromSource(w) ==
    {n \in SectionNumbers :
        w.targetDoc[n].kind = "section" /\ w.targetDoc[n].source = "source"}

\* a plausible slip: the restored sections are left as they were saved
adjustSectionStateForSourceTranslationsSkipped(w, sectionIds) == w

adjustSectionStateForSourceTranslations(w, sectionIds) ==
    [w EXCEPT !.sections = [n \in DOMAIN @ |->
        IF n \in sectionIds
        THEN setUnmodifiedMT(setCurrentMTProvider(@[n], "source"), @[n].source.html)
        ELSE @[n]]]

\* a plausible slip: the mismatch ends the initialisation
compareProgressThrows(w, progress) ==
    IF progress # w.log.progress
    THEN Throw(Logged(w, "errors", "mismatch"))
    ELSE w

\* lines 169-172: a saved progress that differs is reported with mw.log.error
compareProgress(w, progress) ==
    IF progress # w.log.progress THEN Logged(w, "errors", "mismatch") ELSE w

\* lines 167-177: the restored sections are processed without delay
processRestored(w, restoredSections, progress) ==
    IF restoredSections > 0
    THEN Continue(
             Continue(
                 Continue(getTranslationProgress(w),
                          LAMBDA w1 : compareProgress(w1, progress)),
                 processChangeQueue),
             processValidationQueue)
    ELSE w

\* lines 188-195: a focus listener for every section of the target document
attachOnFocusListeners(w) ==
    [w EXCEPT !.log.attached =
        SelectSeq([n \in SectionNumbers |-> n],
                  LAMBDA n : w.targetDoc[n].kind = "section")]

\* line 162: this.adjustSectionStateForSourceTranslations( ... )
adjustRestored(w) ==
    adjustSectionStateForSourceTranslations(w, getSectionsTranslatedFromSource(w))

init(w, savedTranslationUnits, progress) ==
    Continue(
        processRestored(
            adjustRestored(restoreLoop(w, savedTranslationUnits, 1)),
            Cardinality({n \in SectionNumbers : savedTranslationUnits[n].saved}),
            progress),
        attachOnFocusListeners)


(***************************************************************************)
(* The issue registry.  An id is a section number or one of the strings    *)
(* 'global' and 'title'.                                                   *)
(***************************************************************************)
StringId(string) == [isString |-> TRUE, string |-> string, number |-> 0]
NumberId(number) == [isString |-> FALSE, string |-> "", number |-> number]
IssueIds ==
    {StringId("global"), StringId("title")}
        \cup {NumberId(n) : n \in 1..MaxIssueSection}

\* isNaN( a ): a string that is not numeric converts to NaN
isNaN(a) == a.isString
\* the char code of the first character, which decides the comparison of
\* 'global' and 'title'
FirstCharCode(string) == IF string = "global" THEN 103 ELSE 116
\* a > b
Greater(a, b) ==
    IF a.isString /\ b.isString
    THEN FirstCharCode(a.string) > FirstCharCode(b.string)
    ELSE a.number > b.number

\* a plausible slip: the section numbers are put in descending order
sortLettersAndNumbersDescending(a, b) ==
    IF isNaN(a) /\ isNaN(b) THEN (IF Greater(a, b) THEN 1 ELSE -1)
    ELSE IF isNaN(a) THEN -1
    ELSE IF isNaN(b) THEN 1
    ELSE IF Greater(a, b) THEN -1 ELSE 1

sortLettersAndNumbers(a, b) ==
    IF isNaN(a) /\ isNaN(b) THEN (IF Greater(a, b) THEN 1 ELSE -1)
    ELSE IF isNaN(a) THEN -1
    ELSE IF isNaN(b) THEN 1
    ELSE IF Greater(a, b) THEN 1 ELSE -1

\* x is put after the elements of a sorted array that compare before it
insertSorted(array, x) ==
    SelectSeq(array, LAMBDA y : sortLettersAndNumbers(y, x) < 0)
        \o <<x>>
        \o SelectSeq(array, LAMBDA y : ~(sortLettersAndNumbers(y, x) < 0))

\* array.sort( sortLettersAndNumbers )
RECURSIVE sort(_)
sort(array) ==
    IF Len(array) <= 1 THEN array
    ELSE insertSorted(sort(SubSeq(array, 1, Len(array) - 1)), array[Len(array)])

setTranslationIssues(nodes, id, state) ==
    IF IndexOf(nodes, id) # 0
    THEN IF ~state THEN Splice(nodes, IndexOf(nodes, id)) ELSE nodes
    ELSE IF ~state THEN nodes
    ELSE sort(Append(nodes, id))

\* this.nodesWithIssues = []
IssuesIdle ==
    /\ nodesWithIssues = <<>>
    /\ issueCalls = [id \in IssueIds |-> "none"]

(***************************************************************************)
(* The alignment of a translation section with its source section.  The    *)
(* height of an element is that of its content; a min-height that includes *)
(* padding and border (box-sizing: border-box) stretches the content to    *)
(* the min-height less that inset.                                         *)
(***************************************************************************)
\* sectionHeight = sectionHeight + 10
Step == 10
\* if ( steps++ === 10 )
MaxSteps == 10
NaturalHeights == {70, 85, 100}
Insets == {0, 4}
MinHeights == {0, 100}
TagNames == {"DIV", "FIGURE", "TABLE"}
Elements == [natural : NaturalHeights, minHeight : MinHeights, inset : Insets]

\* $element.height()
height(element) ==
    IF element.minHeight - element.inset > element.natural
    THEN element.minHeight - element.inset
    ELSE element.natural

NoMeasure == [source |-> 0, target |-> 0]
\* the pair as keepAlignment finds it; for a FIGURE the two elements are the
\* figcaptions
Alignment(pair) ==
    [ tagName |-> pair.tagName,
      sourceSection |-> pair.sourceSection,
      section |-> pair.section,
      measured |-> NoMeasure,
      assigned |-> <<>>,
      aborted |-> FALSE ]

\* $sourceSection.css( 'min-height', value )
cssSource(a, value) ==
    [a EXCEPT !.sourceSection.minHeight = value,
              !.assigned = Append(@, [element |-> "source", value |-> value])]
\* $section.css( 'min-height', value )
cssTarget(a, value) ==
    [a EXCEPT !.section.minHeight = value,
              !.assigned = Append(@, [element |-> "target", value |-> value])]
\* $sourceSection.css( 'min-height', '' )
resetSource(a) == [a EXCEPT !.sourceSection.minHeight = 0]
\* sourceSectionHeight = $sourceSection.height(); sectionHeight = $section.height()
measure(a) ==
    [a EXCEPT !.measured = [source |-> height(a.sourceSection),
                            target |-> height(a.section)]]

\* one pass of the loop: both min-heights are set to the section's height
\* plus the step
raiseBoth(a, value) == cssTarget(cssSource(a, value), value)

\* while ( sectionHeight !== sourceSectionHeight ) { ... }
RECURSIVE alignLoop(_, _)
alignLoop(a, steps) ==
    IF height(a.section) = height(a.sourceSection) THEN a
    ELSE IF steps = MaxSteps
    THEN [raiseBoth(a, height(a.section) + Step) EXCEPT !.aborted = TRUE]
    ELSE alignLoop(raiseBoth(a, height(a.section) + Step), steps + 1)

\* the branches on the two measured heights
alignSections(a) ==
    IF a.measured.source < a.measured.target
    THEN alignLoop(cssSource(a, a.measured.target), 0)
    ELSE IF a.measured.source > a.measured.target
    THEN cssTarget(a, a.measured.source)
    ELSE a

keepAlignment(a) ==
    IF a.tagName = "TABLE" THEN a
    ELSE alignSections(measure(resetSource(a)))

AlignIdle ==
    /\ sectionPair = [tagName |-> "DIV",
                      sourceSection |-> [natural |-> 70, minHeight |-> 0, inset |-> 0],
                      section |-> [natural |-> 70, minHeight |-> 0, inset |-> 0]]
    /\ alignCall = [called |-> FALSE, measured |-> NoMeasure,
                    assigned |-> <<>>, aborted |-> FALSE]

(***************************************************************************)
(* ve.init.mw.CXTarget: the activation of a placeholder.  A handler is a   *)
(* function of the target t: the document, the content source cache and,   *)
(* for every section, the promise chain of its activation.  The machine    *)
(* translation manager and service settle their promises either way.      *)
(***************************************************************************)
\* MTManager.getDefaultNonMTProvider() resolves with the source provider
DefaultNonMTProvider == "source"
\* content that was cached when the source of a section was switched away
CachedContent(provider) == Paragraph(AlphabetOf(provider), 7)
\* no activation of the section has started
NotActivated ==
    [ stage |-> "none", promise |-> "none", provider |-> NoProvider,
      beforeTranslation |-> FALSE, afterTranslation |-> FALSE,
      failed |-> FALSE, notified |-> 0, errors |-> 0 ]

\* the wait of debounceAlignSectionPairs, in milliseconds
AlignDelay == 500
\* no alignment was requested yet
NoAlignment ==
    [ pending |-> FALSE, elapsed |-> 0,
      \* history: the time since the last request, the requests not yet
      \* followed by a run, what the last run followed, the counts of events
      sinceRequest |-> 0, unserved |-> {}, ran |-> FALSE, served |-> {},
      quiet |-> 0, transactions |-> 0, contentChanges |-> 0, events |-> 0 ]

\* the content source of the section was never switched
NotSwitched ==
    [ pending |-> {}, requests |-> 0, switches |-> 0,
      left |-> [p \in Providers |-> NullHtml] ]

\* the publish button of a new target: nothing is translated, no title
NotPublishing ==
    [ disabled |-> TRUE, surfaceDisabled |-> FALSE,
      errorsInTranslation |-> FALSE,
      \* mw.Title.newFromText( this.pageName ) is a title,
      \* this.translation.hasTranslatedSections()
      titleValid |-> FALSE, translated |-> FALSE,
      \* history: a publishing is in progress, the events so far, the last handler
      publishing |-> FALSE, events |-> 0, handler |-> "none" ]

enablePublishButton(b) ==
    IF b.translated THEN [b EXCEPT !.disabled = FALSE] ELSE b

onTranslationRestore(b) ==
    IF b.titleValid THEN enablePublishButton(b) ELSE b

\* the listener of the hook mw.cx.progress that setupToolbar adds
onProgress(b, any) == [b EXCEPT !.disabled = (any = 0)]

onChange(b) ==
    IF b.titleValid /\ ~b.errorsInTranslation
    THEN [b EXCEPT !.disabled = FALSE]
    ELSE b

onPublishButtonClick(b) ==
    [b EXCEPT !.disabled = TRUE, !.surfaceDisabled = TRUE]

onPublishCancel(b) ==
    [b EXCEPT !.disabled = FALSE, !.surfaceDisabled = FALSE]

onPublishSuccess(b) ==
    [b EXCEPT !.disabled = TRUE, !.surfaceDisabled = FALSE]

onPublishFailure(b) ==
    [b EXCEPT !.disabled = FALSE, !.surfaceDisabled = FALSE]

onTranslationIssues(b, hasErrors) ==
    IF ~hasErrors
    THEN enablePublishButton([b EXCEPT !.errorsInTranslation = hasErrors])
    ELSE [b EXCEPT !.errorsInTranslation = hasErrors]

onIssuesResolved(b) ==
    enablePublishButton([b EXCEPT !.errorsInTranslation = FALSE])

TargetIdle ==
    /\ publish = NotPublishing
    /\ contentSourceCache = [n \in SectionNumbers |-> [p \in Providers |-> NullHtml]]
    /\ activation = [n \in SectionNumbers |-> NotActivated]
    /\ alignment = NoAlignment
    /\ switching = [n \in SectionNumbers |-> NotSwitched]

\* a debounced function that leaves a pending timer as it is
debounceAlignSectionPairsKeepsTimer(t, request) ==
    [t EXCEPT !.alignment.pending = TRUE,
              !.alignment.elapsed = IF t.alignment.pending THEN @ ELSE 0,
              !.alignment.sinceRequest = 0,
              !.alignment.unserved = @ \cup {request}]

\* OO.ui.debounce( this.alignSectionPairs.bind( this ), 500 ): every call
\* clears the pending timeout and sets a new one
debounceAlignSectionPairs(t, request) ==
    [t EXCEPT !.alignment.pending = TRUE,
              !.alignment.elapsed = 0,
              !.alignment.sinceRequest = 0,
              !.alignment.unserved = @ \cup {request}]

\* the section pairs are aligned (keepAlignment, for every pair)
alignSectionPairs(t) ==
    [t EXCEPT !.alignment.ran = TRUE,
              !.alignment.served = t.alignment.unserved,
              !.alignment.quiet = t.alignment.sinceRequest,
              !.alignment.unserved = {}]

onDocumentTransact(t) ==
    debounceAlignSectionPairs(
        [t EXCEPT !.alignment.contentChanges = @ + 1], "transact")

\* the document emits transact for a transaction that was applied
transact(t) == onDocumentTransact([t EXCEPT !.alignment.transactions = @ + 1])

onTargetTitleChange(t) == debounceAlignSectionPairs(t, "title")

\* $( window ).on( 'resize', this.debounceAlignSectionPairs )
onWindowResize(t) == debounceAlignSectionPairs(t, "resize")

\* surfaceModel.change( tx ) puts a cxSection with the content in the place
\* of the section
setSectionContent(t, n, content, source) ==
    transact([t EXCEPT !.doc[n] = CXSectionNode(source, content, "paragraph")])

\* the content arrives: translateSection( cxid, newProvider ).then( ... )
translateSectionDone(t, n, content) ==
    [setSectionContent(t, n, content, t.activation[n].provider)
        EXCEPT !.activation[n].promise = "resolved"]

\* this.translateSection( cxid, newProvider ): the MT service is asked
translateSection(t, n, provider) ==
    [t EXCEPT !.activation[n].promise = "translating",
              !.activation[n].provider = provider,
              !.switching[n].requests = @ + 1,
              !.switching[n].pending = @ \cup {provider}]

\* a target that forgets the content of the provider that is left
cacheNothing(t, n, previousProvider) == t

\* OO.setProp( this.contentSourceCache, cxid, previousProvider, html )
cacheContentSource(t, n, previousProvider) ==
    IF previousProvider # NoProvider
    THEN [t EXCEPT !.cache[n][previousProvider] = t.doc[n].html]
    ELSE t

\* the cached content is looked up unless options.noCache is set
useCachedContent(t, n, newProvider, noCache) ==
    IF ~noCache /\ t.cache[n][newProvider] # NullHtml
    THEN [setSectionContent(t, n, t.cache[n][newProvider], newProvider)
            EXCEPT !.activation[n].promise = "resolved",
                   !.activation[n].provider = newProvider]
    ELSE translateSection(t, n, newProvider)

\* changeContentSource( section, previousProvider, newProvider, options )
changeContentSource(t, n, previousProvider, newProvider, noCache) ==
    useCachedContent(cacheContentSource(t, n, previousProvider), n,
                     newProvider, noCache)

\* the .always() callback: it runs when the chain of the preferred provider
\* is settled
activationAlways(t, n) ==
    IF t.activation[n].stage = "preferred"
           /\ t.activation[n].promise \in {"resolved", "rejected"}
    THEN IF t.doc[n].kind # "none"
         THEN [t EXCEPT !.activation[n].afterTranslation = TRUE]
         ELSE [t EXCEPT !.activation[n].errors = @ + 1]
    ELSE t

\* the fail callback of a target that only tells the user
activationFailNotifyOnly(t, n) ==
    [t EXCEPT !.activation[n].notified = @ + 1]

\* the .fail() callback: the user is told, the default provider is asked
activationFail(t, n) ==
    [t EXCEPT !.activation[n].notified = @ + 1,
              !.activation[n].stage = "fallback",
              !.activation[n].promise = "provider"]

\* the chain of the preferred provider is rejected: always, then fail, run
activationRejected(t, n) ==
    activationFail(
        activationAlways([t EXCEPT !.activation[n].promise = "rejected",
                                   !.activation[n].failed = TRUE], n), n)

onDocumentActivatePlaceholder(t, n) ==
    [t EXCEPT !.activation[n] =
        [NotActivated EXCEPT !.stage = "preferred", !.promise = "provider",
                             !.beforeTranslation = TRUE]]

(***************************************************************************)
(* The section-translation store: the current MT provider, the selected    *)
(* segment (the section title or one sentence) and the translations.       *)
(***************************************************************************)
StoreProviders == {"Google", "Apertium", "Yandex"}
\* undefined as a provider: supportedProviders[ 0 ] of an empty list, or the
\* provider that is destructured from a string payload
UndefinedProvider == "undefined"
Translations == {"", "hola"}

\* a sentence of the current source section
SectionSentence(id) ==
    [ id |-> id, selected |-> FALSE, translatedContent |-> "",
      proposedTranslations |-> {} ]

\* the store with a current source section of the given number of sentences
StoreState(length) ==
    [ currentMTProvider |-> "",
      isSectionTitleSelectedForTranslation |-> FALSE,
      sentences |-> [i \in 1..length |-> SectionSentence(i)],
      translatedTitle |-> "",
      proposedTitleTranslations |-> {},
      \* the requests to mediawiki/translateSegment that are not answered,
      \* the calls of initializeMTProviders that wait for the providers
      requests |-> {},
      initializing |-> 0,
      threw |-> FALSE ]

NoStoreCall == [op |-> "none", threw |-> FALSE, steps |-> 0]

StoreIdle ==
    /\ store = StoreState(0)
    /\ storeCall = NoStoreCall

\* an exception leaves the action
StoreThrow(s) == [s EXCEPT !.threw = TRUE]

\* sentences.findIndex( sentence => sentence.selected ), 1-based; 0 when
\* no sentence is selected
getCurrentSelectedSentenceIndex(s) ==
    IF \E i \in 1..Len(s.sentences) : s.sentences[i].selected
    THEN CHOOSE i \in 1..Len(s.sentences) :
             /\ s.sentences[i].selected
             /\ \A j \in 1..(i - 1) : ~s.sentences[j].selected
    ELSE 0

\* a mutation that leaves the selection as it is
clearSentenceSelectionSkipped(s) == s

\* mutations.clearSentenceSelection: the first selected sentence, if any
clearSentenceSelection(s) ==
    IF getCurrentSelectedSentenceIndex(s) # 0
    THEN [s EXCEPT !.sentences[getCurrentSelectedSentenceIndex(s)].selected = FALSE]
    ELSE s

\* mutations.selectSentence: the sentence with the id; a TypeError when
\* there is none
selectSentence(s, id) ==
    IF \E i \in 1..Len(s.sentences) : s.sentences[i].id = id
    THEN [s EXCEPT !.sentences[CHOOSE i \in 1..Len(s.sentences) :
                                   /\ s.sentences[i].id = id
                                   /\ \A j \in 1..(i - 1) : s.sentences[j].id # id
                              ].selected = TRUE]
    ELSE StoreThrow(s)

\* mutations.setSelectedSentenceTranslation: a TypeError when no sentence is
\* selected
setSelectedSentenceTranslation(s, translation) ==
    IF getCurrentSelectedSentenceIndex(s) # 0
    THEN [s EXCEPT !.sentences[getCurrentSelectedSentenceIndex(s)]
                       .translatedContent = translation]
    ELSE StoreThrow(s)

setCurrentSourceSectionTitleTranslation(s, translation) ==
    [s EXCEPT !.translatedTitle = translation]

setIsSectionTitleSelectedForTranslation(s, value) ==
    [s EXCEPT !.isSectionTitleSelectedForTranslation = value]

setStoreMTProvider(s, provider) == [s EXCEPT !.currentMTProvider = provider]

\* dispatch( "mediawiki/translateSegment", ... ) for the title (segment 0) or
\* a sentence
translateSegment(s, segment, provider) ==
    [s EXCEPT !.requests = @ \cup {[segment |-> segment, provider |-> provider]}]

translateFollowingSentence(s, provider) ==
    IF getCurrentSelectedSentenceIndex(s) + 1 > Len(s.sentences)
    THEN s
    ELSE translateSegment(s, getCurrentSelectedSentenceIndex(s) + 1, provider)

translateSectionTitle(s, provider) ==
    IF s.translatedTitle # "" THEN s ELSE translateSegment(s, 0, provider)

translateSelectedSentence(s, provider) ==
    IF getCurrentSelectedSentenceIndex(s) = 0 THEN s
    ELSE IF provider \in s.sentences[getCurrentSelectedSentenceIndex(s)]
                             .proposedTranslations
    THEN s
    ELSE translateSegment(s, getCurrentSelectedSentenceIndex(s), provider)

translateSelectedSegment(s, provider) ==
    IF s.isSectionTitleSelectedForTranslation
    THEN translateSectionTitle(translateFollowingSentence(s, provider), provider)
    ELSE translateSelectedSentence(translateFollowingSentence(s, provider),
                                   provider)

\* the payload of selectSentenceForCurrentSection: an object with an id (0
\* for an id that is not there), or undefined
Payload(id) == [isObject |-> TRUE, id |-> id]
UndefinedPayload == [isObject |-> FALSE, id |-> 0]

\* if ( id ) { commit( "selectSentence", id ); dispatch( ... ) }
selectIfId(s, id) ==
    IF id # 0
    THEN Continue(selectSentence(s, id),
                  LAMBDA s1 : translateSelectedSegment(s1, s1.currentMTProvider))
    ELSE s

\* actions.selectSentenceForCurrentSection( context, { id } ): the payload
\* is destructured before anything is committed
selectSentenceForCurrentSection(s, payload) ==
    IF ~payload.isObject
    THEN StoreThrow(s)
    ELSE selectIfId(
             setIsSectionTitleSelectedForTranslation(clearSentenceSelection(s),
                                                     FALSE),
             payload.id)

\* sentences[ index ], 1-based: the sentence, or undefined past the ends
SentenceAt(s, index) ==
    IF index \in 1..Len(s.sentences)
    THEN Payload(s.sentences[index].id)
    ELSE UndefinedPayload

nextSentencePayload(s) == SentenceAt(s, getCurrentSelectedSentenceIndex(s) + 1)

\* actions.selectNextSentence
selectNextSentence(s) ==
    selectSentenceForCurrentSection(
        setIsSectionTitleSelectedForTranslation(s, FALSE),
        nextSentencePayload(s))

\* a % b of JavaScript for b > 0: the sign is that of a
Remainder(a, b) == IF a >= 0 THEN a % b ELSE 0 - ((0 - a) % b)

\* ( selectedIndex + sentences.length - 1 ) % sentences.length on the
\* 0-based index, as a 1-based index; NaN of an empty section is no index
previousSentencePayload(s) ==
    IF Len(s.sentences) = 0
    THEN UndefinedPayload
    ELSE SentenceAt(s,
             Remainder(getCurrentSelectedSentenceIndex(s) + Len(s.sentences) - 2,
                       Len(s.sentences)) + 1)

\* actions.selectPreviousSegment
selectPreviousSegment(s) ==
    IF getCurrentSelectedSentenceIndex(s) = 1
    THEN setIsSectionTitleSelectedForTranslation(s, TRUE)
    ELSE selectSentenceForCurrentSection(s, previousSentencePayload(s))

\* actions.selectSectionTitleForTranslation
selectSectionTitleForTranslation(s) ==
    setIsSectionTitleSelectedForTranslation(clearSentenceSelection(s), TRUE)

\* actions.selectInitialTranslationSegment
selectInitialTranslationSegment(s) ==
    IF getCurrentSelectedSentenceIndex(s) = 0
    THEN translateSelectedSegment(
             setIsSectionTitleSelectedForTranslation(s, TRUE),
             s.currentMTProvider)
    ELSE s

\* actions.applyTranslationToSelectedSegment
applyTranslationToSelectedSegment(s, translation) ==
    Continue(IF s.isSectionTitleSelectedForTranslation
             THEN setCurrentSourceSectionTitleTranslation(s, translation)
             ELSE setSelectedSentenceTranslation(s, translation),
             selectNextSentence)

\* actions.updateMTProvider: the provider itself is the payload of
\* translateSelectedSegment, which destructures { provider } from it
updateMTProvider(s, provider) ==
    translateSelectedSegment(setStoreMTProvider(s, provider), UndefinedProvider)

\* supportedProviders[ 0 ]
FirstProvider(supportedProviders) ==
    IF Len(supportedProviders) > 0 THEN supportedProviders[1]
    ELSE UndefinedProvider

\* an initialisation that only looks whether a provider is set
initializeMTProvidersKeepsCurrent(s, supportedProviders) ==
    IF s.currentMTProvider # "" THEN s
    ELSE setStoreMTProvider(s, FirstProvider(supportedProviders))

\* actions.initializeMTProviders, after the providers were fetched
initializeMTProviders(s, supportedProviders) ==
    IF s.currentMTProvider # ""
           /\ \E i \in 1..Len(supportedProviders) :
                  supportedProviders[i] = s.currentMTProvider
    THEN s
    ELSE setStoreMTProvider(s, FirstProvider(supportedProviders))

\* the answer to a request arrives: Vue.set( ..., provider, translation )
setProposedTranslation(s, request) ==
    IF request.segment = 0
    THEN [s EXCEPT !.requests = @ \ {request},
                   !.proposedTitleTranslations = @ \cup {request.provider}]
    ELSE [s EXCEPT !.requests = @ \ {request},
                   !.sentences[request.segment].proposedTranslations =
                       @ \cup {request.provider}]


(***************************************************************************)
(* The state machine of a translation session                              *)
(***************************************************************************)
\* this.lastFocusedSection = null
NoSection == 0
LanguagePairs == {<<"en", "es">>, <<"ja", "en">>}

\* a target section as the session finds it, with its saved translation unit
RestoreOptions(n) ==
    { [ node |-> PlaceholderNode, unit |-> NoUnit ],
      [ node |-> CXSectionNode("Google", ProviderContent("Google", n), "paragraph"),
        unit |-> [ saved |-> TRUE,
                   user |-> [engine |-> "Google",
                             content |-> ProviderContent("Google", n)],
                   mt |-> [engine |-> "Google",
                           content |-> ProviderContent("Google", n)] ] ],
      [ node |-> CXSectionNode("source", Paragraph(SourceAlphabet, 7), "paragraph"),
        unit |-> [ saved |-> TRUE,
                   user |-> [engine |-> "source",
                             content |-> Paragraph(SourceAlphabet, 7)],
                   mt |-> NoEntry ] ] }

World ==
    [ sections |-> sections,
      validationDelayQueue |-> validationDelayQueue,
      changeQueue |-> changeQueue,
      saveQueue |-> saveQueue,
      lastFocusedSection |-> lastFocusedSection,
      validationTimer |-> validationTimer,
      validationElapsed |-> validationElapsed,
      sinceNonFresh |-> sinceNonFresh,
      sourceLanguage |-> sourceLanguage,
      targetLanguage |-> targetLanguage,
      targetDoc |-> targetDoc,
      freshContent |-> freshContent,
      threw |-> FALSE,
      reentry |-> <<>>,
      log |-> EmptyLog ]

CallRecord(op, w) ==
    [op |-> op, threw |-> w.threw, log |-> w.log]

\* the handler op took the world to w
Commit(op, w) ==
    /\ sections' = w.sections
    /\ validationDelayQueue' = w.validationDelayQueue
    /\ changeQueue' = w.changeQueue
    /\ saveQueue' = w.saveQueue
    /\ lastFocusedSection' = w.lastFocusedSection
    /\ validationTimer' = w.validationTimer
    /\ validationElapsed' = w.validationElapsed
    /\ sinceNonFresh' = w.sinceNonFresh
    /\ targetDoc' = w.targetDoc
    /\ freshContent' = w.freshContent
    /\ lastCall' = CallRecord(op, w)
    /\ UNCHANGED <<sourceLanguage, targetLanguage>>
    /\ UNCHANGED calcVars
    /\ UNCHANGED issueVars
    /\ UNCHANGED alignVars
    /\ UNCHANGED targetVars
    /\ UNCHANGED storeVars

TrackerInit ==
    /\ sections = <<>>
    /\ validationDelayQueue = <<>>
    /\ changeQueue = <<>>
    /\ saveQueue = <<>>
    /\ lastFocusedSection = NoSection
    /\ validationTimer = FALSE
    /\ validationElapsed = 0
    /\ sinceNonFresh = 0
    /\ \E pair \in LanguagePairs :
           sourceLanguage = pair[1] /\ targetLanguage = pair[2]
    /\ targetDoc \in [SectionNumbers -> UNION {{o.node : o \in RestoreOptions(n)} :
                                               n \in SectionNumbers}]
    /\ \A n \in SectionNumbers : \E o \in RestoreOptions(n) : targetDoc[n] = o.node
    /\ freshContent = [n \in SectionNumbers |-> NullHtml]
    /\ initialized = FALSE
    /\ events = 0
    /\ lastCall = [op |-> "none", threw |-> FALSE, log |-> EmptyLog]

CalcIdle ==
    /\ string1 = <<>>
    /\ string2 = <<>>
    /\ language = "en"
    /\ called = "none"
    /\ result = Zero

Init == TrackerInit /\ CalcIdle /\ IssuesIdle /\ AlignIdle /\ TargetIdle
    /\ StoreIdle

\* translationModel.progress: the progress that was saved with the draft
SavedProgress ==
    {p \in [any : 0..NumSections, human : 0..NumSections, mt : 0..NumSections,
            total : {NumSections}] : p.any = p.human + p.mt}

\* translationTracker.init( translationModel )
Initialize ==
    /\ ~initialized
    /\ \E savedTranslationUnits \in [SectionNumbers -> UNION {{o.unit : o \in RestoreOptions(n)} : n \in SectionNumbers}] :
         /\ \A n \in SectionNumbers :
                [node |-> targetDoc[n], unit |-> savedTranslationUnits[n]]
                    \in RestoreOptions(n)
         /\ \E progress \in SavedProgress :
                Commit("init", init(World, savedTranslationUnits, progress))
    /\ initialized' = TRUE
    /\ events' = events

Running == initialized
Editing == initialized /\ events < MaxEvents

\* the editor reports a change of a section: the section is queued
contentChange(w, n) == pushToSaveQueue(pushToChangeQueue(w, n), n)

\* a placeholder is activated, or the content source of a section is changed
EditorTranslate(n, provider, childType) ==
    /\ Editing
    /\ targetDoc[n].kind \in {"placeholder", "section"}
    /\ targetDoc[n].source # provider
    /\ targetDoc[n].kind = "section" => childType = targetDoc[n].childType
    /\ Commit("translate",
           contentChange([World EXCEPT !.targetDoc[n] =
               CXSectionNode(provider, ProviderContent(provider, n), childType)], n))
    /\ events' = events + 1
    /\ UNCHANGED initialized

\* the translator edits a section
EditorEdit(n, size) ==
    /\ Editing
    /\ targetDoc[n].kind = "section"
    /\ targetDoc[n].html # Paragraph(AlphabetOf(targetDoc[n].source), size)
    /\ Commit("edit",
           contentChange([World EXCEPT !.targetDoc[n].html =
               Paragraph(AlphabetOf(targetDoc[n].source), size)], n))
    /\ events' = events + 1
    /\ UNCHANGED initialized

\* undo turns the section back into a placeholder
EditorUndo(n) ==
    /\ Editing
    /\ targetDoc[n].kind = "section"
    /\ Commit("undo", contentChange([World EXCEPT !.targetDoc[n] = PlaceholderNode], n))
    /\ events' = events + 1
    /\ UNCHANGED initialized

\* the section's node leaves the document
EditorRemove(n) ==
    /\ Editing
    /\ targetDoc[n].kind = "section"
    /\ Commit("remove", contentChange([World EXCEPT !.targetDoc[n] = NoNode], n))
    /\ events' = events + 1
    /\ UNCHANGED initialized

\* the debounced drain of the change queue
ProcessChangeQueue ==
    /\ Running
    /\ Commit("processChangeQueue", processChangeQueue(World))
    /\ UNCHANGED events
    /\ UNCHANGED initialized

\* the validation timer fires: the debounced processValidationQueue runs
ValidationTimerFires ==
    /\ Running
    /\ validationTimer
    /\ Commit("processValidationQueue",
           processValidationQueue([World EXCEPT !.validationTimer = FALSE,
                                                 !.validationElapsed = 0]))
    /\ UNCHANGED events
    /\ UNCHANGED initialized

\* the focus moves into a section
SectionFocus(n) ==
    /\ Editing
    /\ targetDoc[n].kind = "section"
    /\ Commit("onSectionFocus", onSectionFocus(World, n))
    /\ events' = events + 1
    /\ UNCHANGED initialized

GetTranslationProgress ==
    /\ Running
    /\ Commit("getTranslationProgress", getTranslationProgress(World))
    /\ UNCHANGED events
    /\ UNCHANGED initialized

\* the persistence layer has saved a section
SectionSaved(n) ==
    /\ Editing
    /\ Commit("removeSectionFromSaveQueue", removeSectionFromSaveQueue(World, n))
    /\ events' = events + 1
    /\ UNCHANGED initialized

Next ==
    \/ Initialize
    \/ \E n \in SectionNumbers, provider \in Providers, childType \in ChildTypes :
           EditorTranslate(n, provider, childType)
    \/ \E n \in SectionNumbers, size \in EditSizes : EditorEdit(n, size)
    \/ \E n \in SectionNumbers : EditorUndo(n)
    \/ \E n \in SectionNumbers : EditorRemove(n)
    \/ ProcessChangeQueue
    \/ ValidationTimerFires
    \/ \E n \in SectionNumbers : SectionFocus(n)
    \/ GetTranslationProgress
    \/ \E n \in SectionNumbers : SectionSaved(n)

Spec == Init /\ [][Next]_vars

\* the debounced processChangeQueue runs: the queued changes are taken off
ChangeTimerFires == changeQueue # <<>> /\ changeQueue' = <<>>

\* the debounced processValidationQueue runs: its timer is not pending any more
ValidationTimerFired == validationTimer /\ validationTimer' = FALSE

\* the translator translates, edits and undoes; the timers fire
NextFair ==
    \/ Initialize
    \/ \E n \in SectionNumbers, provider \in Providers, childType \in ChildTypes :
           EditorTranslate(n, provider, childType)
    \/ \E n \in SectionNumbers, size \in EditSizes : EditorEdit(n, size)
    \/ \E n \in SectionNumbers : EditorUndo(n)
    \/ ProcessChangeQueue
    \/ ValidationTimerFires

\* the session whose scheduled timers fire: a change queue that is not empty
\* is drained, a validationScheduler that was armed runs
SpecFair ==
    /\ Init
    /\ [][NextFair]_vars
    /\ WF_changeQueue(ChangeTimerFires)
    /\ WF_validationTimer(ValidationTimerFired)


(***************************************************************************)
(* Drains during which the editor's listeners call back into the tracker:  *)
(* the events that a section node emits from addTranslationIssues and      *)
(* resolveTranslationIssues are delivered synchronously.                   *)
(***************************************************************************)
Listeners ==
    {[kind |-> "processChangeQueue", section |-> NoSection]}
        \cup {[kind |-> "pushToChangeQueue", section |-> n] : n \in SectionNumbers}
        \cup {[kind |-> "focus", section |-> n] : n \in SectionNumbers}

ReentrantValidationTimerFires(listener) ==
    /\ Running
    /\ validationTimer
    /\ Commit("processValidationQueue",
           [processValidationQueue([World EXCEPT !.validationTimer = FALSE,
                                                 !.reentry = <<listener>>])
               EXCEPT !.reentry = <<>>])
    /\ UNCHANGED events
    /\ UNCHANGED initialized

ReentrantProcessChangeQueue(listener) ==
    /\ Running
    /\ Commit("processChangeQueue",
           [processChangeQueue([World EXCEPT !.reentry = <<listener>>])
               EXCEPT !.reentry = <<>>])
    /\ UNCHANGED events
    /\ UNCHANGED initialized

NextReentrant ==
    \/ Next
    \/ \E listener \in Listeners : ReentrantValidationTimerFires(listener)
    \/ \E listener \in Listeners : ReentrantProcessChangeQueue(listener)

SpecReentrant == Init /\ [][NextReentrant]_vars


(***************************************************************************)
(* One call of a static calculator, for every input up to MaxStrLen and    *)
(* for the sentences of the documented example.                            *)
(***************************************************************************)
CalcAlphabet == {"a", "b", " "}
TheCatSat == <<"T", "h", "e", " ", "c", "a", "t", " ", "s", "a", "t">>
TheCatSatOnTheMat ==
    TheCatSat \o <<" ", "o", "n", " ", "t", "h", "e", " ", "m", "a", "t">>
CalcStrings ==
    UNION {[1..k -> CalcAlphabet] : k \in 0..MaxStrLen}
        \cup {TheCatSat, TheCatSatOnTheMat}

\* the tracker is not part of a calculator call
TrackerIdle ==
    /\ sections = <<>>
    /\ validationDelayQueue = <<>>
    /\ changeQueue = <<>>
    /\ saveQueue = <<>>
    /\ lastFocusedSection = NoSection
    /\ validationTimer = FALSE
    /\ validationElapsed = 0
    /\ sinceNonFresh = 0
    /\ sourceLanguage = "en"
    /\ targetLanguage = "es"
    /\ targetDoc = [n \in SectionNumbers |-> PlaceholderNode]
    /\ freshContent = [n \in SectionNumbers |-> NullHtml]
    /\ initialized = FALSE
    /\ events = 0
    /\ lastCall = [op |-> "none", threw |-> FALSE, log |-> EmptyLog]

CalcInit ==
    /\ TrackerIdle
    /\ IssuesIdle
    /\ AlignIdle
    /\ TargetIdle
    /\ StoreIdle
    /\ string1 \in CalcStrings
    /\ string2 \in CalcStrings
    /\ language \in Languages
    /\ called = "none"
    /\ result = Zero

CalculateUnmodifiedContent ==
    /\ called = "none"
    /\ called' = "calculateUnmodifiedContent"
    /\ result' = calculateUnmodifiedContent(string1, string2, language)
    /\ UNCHANGED <<string1, string2, language>>
    /\ UNCHANGED trackerVars
    /\ UNCHANGED issueVars
    /\ UNCHANGED alignVars
    /\ UNCHANGED targetVars
    /\ UNCHANGED storeVars

CalculateSectionTranslationProgress ==
    /\ called = "none"
    /\ called' = "calculateSectionTranslationProgress"
    /\ result' = calculateSectionTranslationProgress(string1, string2, language)
    /\ UNCHANGED <<string1, string2, language>>
    /\ UNCHANGED trackerVars
    /\ UNCHANGED issueVars
    /\ UNCHANGED alignVars
    /\ UNCHANGED targetVars
    /\ UNCHANGED storeVars

Tokenise ==
    /\ called = "none"
    /\ called' = "tokenise"
    /\ result' = tokenise(string1, language)
    /\ UNCHANGED <<string1, string2, language>>
    /\ UNCHANGED trackerVars
    /\ UNCHANGED issueVars
    /\ UNCHANGED alignVars
    /\ UNCHANGED targetVars
    /\ UNCHANGED storeVars

CalcNext ==
    \/ CalculateUnmodifiedContent
    \/ CalculateSectionTranslationProgress
    \/ Tokenise

SpecCalc == CalcInit /\ [][CalcNext]_vars

(***************************************************************************)
(* One call of tokenise, for strings that may hold a character outside the *)
(* Basic Multilingual Plane.  An element of a string is a UTF-16 code      *)
(* unit, as in JavaScript; such a character takes two of them.             *)
(***************************************************************************)
HighSurrogate == "uD840"
LowSurrogate == "uDC00"
TokeniseAlphabet == {"a", " ", HighSurrogate, LowSurrogate}
TokeniseStrings == UNION {[1..k -> TokeniseAlphabet] : k \in 0..MaxStrLen}

TokeniseInit ==
    /\ TrackerIdle
    /\ IssuesIdle
    /\ AlignIdle
    /\ TargetIdle
    /\ StoreIdle
    /\ string1 \in TokeniseStrings
    /\ string2 = <<>>
    /\ language \in Languages
    /\ called = "none"
    /\ result = Zero

TokeniseNext == Tokenise

SpecTokenise == TokeniseInit /\ [][TokeniseNext]_vars

(***************************************************************************)
(* Calls of setTranslationIssues on a tracker that was just constructed    *)
(***************************************************************************)
SetTranslationIssues(id, state) ==
    /\ nodesWithIssues' = setTranslationIssues(nodesWithIssues, id, state)
    /\ issueCalls' = [issueCalls EXCEPT ![id] = IF state THEN "true" ELSE "false"]
    /\ UNCHANGED trackerVars
    /\ UNCHANGED calcVars
    /\ UNCHANGED alignVars
    /\ UNCHANGED targetVars
    /\ UNCHANGED storeVars

IssuesInit == TrackerIdle /\ CalcIdle /\ IssuesIdle /\ AlignIdle /\ TargetIdle
    /\ StoreIdle

IssuesNext == \E id \in IssueIds, state \in BOOLEAN : SetTranslationIssues(id, state)

SpecIssues == IssuesInit /\ [][IssuesNext]_vars

(***************************************************************************)
(* One call of keepAlignment on a pair of sections                         *)
(***************************************************************************)
AlignInit ==
    /\ TrackerIdle
    /\ CalcIdle
    /\ IssuesIdle
    /\ TargetIdle
    /\ StoreIdle
    /\ sectionPair \in [tagName : TagNames, sourceSection : Elements,
                         section : Elements]
    /\ alignCall = [called |-> FALSE, measured |-> NoMeasure,
                    assigned |-> <<>>, aborted |-> FALSE]

AlignCommit(a) ==
    /\ sectionPair' = [tagName |-> a.tagName, sourceSection |-> a.sourceSection,
                       section |-> a.section]
    /\ alignCall' = [called |-> TRUE, measured |-> a.measured,
                     assigned |-> a.assigned, aborted |-> a.aborted]

KeepAlignment ==
    /\ ~alignCall.called
    /\ AlignCommit(keepAlignment(Alignment(sectionPair)))
    /\ UNCHANGED trackerVars
    /\ UNCHANGED calcVars
    /\ UNCHANGED issueVars
    /\ UNCHANGED targetVars
    /\ UNCHANGED storeVars

AlignNext == KeepAlignment

SpecAlign == AlignInit /\ [][AlignNext]_vars


(***************************************************************************)
(* Placeholders of the target document are activated; the promises of the  *)
(* machine translation manager and service settle in any order.            *)
(***************************************************************************)
Target ==
    [ doc |-> targetDoc, cache |-> contentSourceCache, activation |-> activation,
      alignment |-> alignment, switching |-> switching ]

TargetCommit(t) ==
    /\ targetDoc' = t.doc
    /\ contentSourceCache' = t.cache
    /\ activation' = t.activation
    /\ alignment' = t.alignment
    /\ switching' = t.switching
    /\ UNCHANGED publish
    /\ UNCHANGED <<sections, validationDelayQueue, changeQueue, saveQueue,
                   lastFocusedSection, validationTimer, validationElapsed,
                   sinceNonFresh, sourceLanguage, targetLanguage, initialized,
                   events, lastCall, freshContent>>
    /\ UNCHANGED calcVars
    /\ UNCHANGED issueVars
    /\ UNCHANGED alignVars
    /\ UNCHANGED storeVars

\* content of earlier switches of the content source may be cached
TargetInit ==
    /\ TrackerIdle
    /\ CalcIdle
    /\ IssuesIdle
    /\ AlignIdle
    /\ contentSourceCache \in
           [SectionNumbers -> [Providers -> {NullHtml} \cup
                                   {CachedContent(p) : p \in Providers}]]
    /\ \A n \in SectionNumbers, p \in Providers :
           contentSourceCache[n][p] \in {NullHtml, CachedContent(p)}
    /\ activation = [n \in SectionNumbers |-> NotActivated]
    /\ alignment = NoAlignment
    /\ switching = [n \in SectionNumbers |-> NotSwitched]
    /\ publish = NotPublishing
    /\ StoreIdle

\* the translator clicks a placeholder
ActivatePlaceholder(n) ==
    /\ targetDoc[n].kind = "placeholder"
    /\ activation[n].stage = "none"
    /\ TargetCommit(onDocumentActivatePlaceholder(Target, n))

\* MTManager.getPreferredProvider() is resolved
PreferredProviderResolved(n, provider) ==
    /\ activation[n].stage = "preferred"
    /\ activation[n].promise = "provider"
    /\ TargetCommit(activationAlways(changeContentSource(Target, n, NoProvider, provider, FALSE), n))

\* MTManager.getPreferredProvider() or MTService.translate() is rejected
PreferredChainRejected(n) ==
    /\ activation[n].stage = "preferred"
    /\ activation[n].promise \in {"provider", "translating"}
    /\ TargetCommit(activationRejected(Target, n))

\* MTService.translate() is resolved
TranslationResolved(n) ==
    /\ activation[n].promise = "translating"
    /\ TargetCommit(activationAlways(
           translateSectionDone(Target, n,
               ProviderContent(activation[n].provider, n)), n))

\* MTManager.getDefaultNonMTProvider() is resolved
DefaultProviderResolved(n) ==
    /\ activation[n].stage = "fallback"
    /\ activation[n].promise = "provider"
    /\ TargetCommit(changeContentSource(Target, n, NoProvider, DefaultNonMTProvider, FALSE))

\* MTManager.getDefaultNonMTProvider() or MTService.translate() is rejected
\* in the chain of the default provider
FallbackChainRejected(n) ==
    /\ activation[n].stage = "fallback"
    /\ activation[n].promise \in {"provider", "translating"}
    /\ TargetCommit([Target EXCEPT !.activation[n].promise = "rejected"])

ViewEvent(t) == [t EXCEPT !.alignment.events = @ + 1]

\* the translator edits the target document: a transaction is applied
DocumentTransact ==
    /\ alignment.events < MaxViewEvents
    /\ TargetCommit(transact(ViewEvent(Target)))

\* the translator changes the title of the translation
TargetTitleChange ==
    /\ alignment.events < MaxViewEvents
    /\ TargetCommit(onTargetTitleChange(ViewEvent(Target)))

\* the window is resized
WindowResize ==
    /\ alignment.events < MaxViewEvents
    /\ TargetCommit(onWindowResize(ViewEvent(Target)))

LaterMillis(millis) ==
    IF millis + TickMillis > AlignDelay THEN AlignDelay ELSE millis + TickMillis

\* time passes; a timer whose wait is over fires before more time passes
AlignTick ==
    /\ alignment.pending
    /\ alignment.elapsed < AlignDelay
    /\ TargetCommit([Target EXCEPT
           !.alignment.elapsed = LaterMillis(@),
           !.alignment.sinceRequest = LaterMillis(@)])

\* setTimeout( later, 500 ) of the debounced alignSectionPairs
AlignTimeout ==
    /\ alignment.pending
    /\ alignment.elapsed >= AlignDelay
    /\ TargetCommit(alignSectionPairs(
           [Target EXCEPT !.alignment.pending = FALSE,
                          !.alignment.elapsed = 0]))

TargetNext ==
    \/ \E n \in SectionNumbers :
        \/ ActivatePlaceholder(n)
        \/ \E provider \in MTProviders : PreferredProviderResolved(n, provider)
        \/ PreferredChainRejected(n)
        \/ TranslationResolved(n)
        \/ DefaultProviderResolved(n)
        \/ FallbackChainRejected(n)
    \/ DocumentTransact
    \/ TargetTitleChange
    \/ WindowResize
    \/ AlignTick
    \/ AlignTimeout

SpecTarget == TargetInit /\ [][TargetNext]_vars


(***************************************************************************)
(* The translator switches the content source of translated sections back  *)
(* and forth and edits them; the MT service answers in any order.          *)
(***************************************************************************)
\* every section is translated, nothing is cached yet
SourceInit ==
    /\ TrackerIdle
    /\ CalcIdle
    /\ IssuesIdle
    /\ AlignIdle
    /\ TargetIdle
    /\ StoreIdle

\* the sections were translated with some provider when the session starts
SourceStart ==
    /\ alignment.events = 0
    /\ \A n \in SectionNumbers : targetDoc[n].kind = "placeholder"
    /\ \E provider \in [SectionNumbers -> Providers] :
           TargetCommit([ViewEvent(Target) EXCEPT !.doc =
               [n \in SectionNumbers |->
                   CXSectionNode(provider[n], ProviderContent(provider[n], n),
                                 "paragraph")]])

\* the translator picks another content source for the section, or asks for
\* the content of a provider anew; the section leaves its current provider
SwitchContentSource(n, newProvider, noCache) ==
    /\ alignment.events \in 1..MaxViewEvents
    /\ targetDoc[n].kind = "section"
    /\ TargetCommit(changeContentSource(
           [ViewEvent(Target) EXCEPT
               !.switching[n].left[targetDoc[n].source] = targetDoc[n].html,
               !.switching[n].switches = @ + 1],
           n, targetDoc[n].source, newProvider, noCache))

\* MTService.translate() is resolved for a request of the section
SourceTranslationResolved(n, provider) ==
    /\ provider \in switching[n].pending
    /\ TargetCommit(translateSectionDone(
           [Target EXCEPT !.activation[n].provider = provider,
                          !.switching[n].pending = @ \ {provider}],
           n, ProviderContent(provider, n)))

\* the translator edits the section
SourceEdit(n, size) ==
    /\ alignment.events \in 1..MaxViewEvents
    /\ targetDoc[n].kind = "section"
    /\ targetDoc[n].html # Paragraph(AlphabetOf(targetDoc[n].source), size)
    /\ TargetCommit(transact([ViewEvent(Target) EXCEPT !.doc[n].html =
           Paragraph(AlphabetOf(targetDoc[n].source), size)]))

SourceNext ==
    \/ SourceStart
    \/ \E n \in SectionNumbers :
        \/ \E newProvider \in Providers, noCache \in BOOLEAN :
               SwitchContentSource(n, newProvider, noCache)
        \/ \E provider \in Providers : SourceTranslationResolved(n, provider)
        \/ \E size \in EditSizes : SourceEdit(n, size)

SpecSource == SourceInit /\ [][SourceNext]_vars


(***************************************************************************)
(* The translator picks segments of a section, applies translations and    *)
(* changes the MT provider; the providers of the language pair and the     *)
(* proposed translations arrive in any order.                              *)
(***************************************************************************)
\* mutations.setCurrentSourceSection: a section whose sentences are not
\* selected
StoreInit ==
    /\ TrackerIdle
    /\ CalcIdle
    /\ IssuesIdle
    /\ AlignIdle
    /\ TargetIdle
    /\ \E length \in 0..NumSentences : store = StoreState(length)
    /\ storeCall = NoStoreCall

StoreCommit(op, s) ==
    /\ store' = [s EXCEPT !.threw = FALSE]
    /\ storeCall' = [op |-> op, threw |-> s.threw, steps |-> storeCall.steps + 1]
    /\ UNCHANGED trackerVars
    /\ UNCHANGED calcVars
    /\ UNCHANGED issueVars
    /\ UNCHANGED alignVars
    /\ UNCHANGED targetVars

Dispatching == storeCall.steps < MaxStoreActions

\* a sentence is clicked; the id may be one that the section does not have
SelectSentenceForCurrentSection(id) ==
    /\ Dispatching
    /\ StoreCommit("selectSentenceForCurrentSection",
           selectSentenceForCurrentSection(store, Payload(id)))

SelectNextSentence ==
    /\ Dispatching
    /\ StoreCommit("selectNextSentence", selectNextSentence(store))

SelectPreviousSegment ==
    /\ Dispatching
    /\ StoreCommit("selectPreviousSegment", selectPreviousSegment(store))

SelectSectionTitleForTranslation ==
    /\ Dispatching
    /\ StoreCommit("selectSectionTitleForTranslation",
           selectSectionTitleForTranslation(store))

SelectInitialTranslationSegment ==
    /\ Dispatching
    /\ StoreCommit("selectInitialTranslationSegment",
           selectInitialTranslationSegment(store))

ApplyTranslationToSelectedSegment(translation) ==
    /\ Dispatching
    /\ StoreCommit("applyTranslationToSelectedSegment",
           applyTranslationToSelectedSegment(store, translation))

UpdateMTProvider(provider) ==
    /\ Dispatching
    /\ StoreCommit("updateMTProvider", updateMTProvider(store, provider))

\* initializeMTProviders is dispatched and waits for mediawiki/fetchMTProviders
InitializeMTProviders ==
    /\ Dispatching
    /\ StoreCommit("fetchMTProviders", [store EXCEPT !.initializing = @ + 1])

\* the lists of providers that a language pair may support
SupportedProviderLists ==
    {<<>>} \cup {<<p>> : p \in StoreProviders}
        \cup {l \in [1..2 -> StoreProviders] : l[1] # l[2]}

\* the providers were fetched: the rest of initializeMTProviders runs
MTProvidersFetched(supportedProviders) ==
    /\ store.initializing > 0
    /\ store' = initializeMTProviders([store EXCEPT !.initializing = @ - 1],
                                     supportedProviders)
    /\ storeCall' = [op |-> "initializeMTProviders", threw |-> FALSE,
                     steps |-> storeCall.steps,
                     supportedProviders |-> supportedProviders,
                     previous |-> store.currentMTProvider]
    /\ UNCHANGED trackerVars
    /\ UNCHANGED calcVars
    /\ UNCHANGED issueVars
    /\ UNCHANGED alignVars
    /\ UNCHANGED targetVars

\* mediawiki/translateSegment is resolved
SegmentTranslated(request) ==
    /\ request \in store.requests
    /\ store' = setProposedTranslation(store, request)
    /\ storeCall' = [op |-> "translateSegment", threw |-> FALSE,
                     steps |-> storeCall.steps]
    /\ UNCHANGED trackerVars
    /\ UNCHANGED calcVars
    /\ UNCHANGED issueVars
    /\ UNCHANGED alignVars
    /\ UNCHANGED targetVars

StoreNext ==
    \/ \E id \in 0..(NumSentences + 1) : SelectSentenceForCurrentSection(id)
    \/ SelectNextSentence
    \/ SelectPreviousSegment
    \/ SelectSectionTitleForTranslation
    \/ SelectInitialTranslationSegment
    \/ \E translation \in Translations : ApplyTranslationToSelectedSegment(translation)
    \/ \E provider \in StoreProviders : UpdateMTProvider(provider)
    \/ InitializeMTProviders
    \/ \E supportedProviders \in SupportedProviderLists :
           MTProvidersFetched(supportedProviders)
    \/ \E request \in store.requests : SegmentTranslated(request)

SpecStore == StoreInit /\ [][StoreNext]_vars


(***************************************************************************)
(* The publish button: the translator clicks it, the publishing ends, and  *)
(* the listeners of the target receive their events at any time.           *)
(***************************************************************************)
PublishInit ==
    /\ TrackerIdle
    /\ CalcIdle
    /\ IssuesIdle
    /\ AlignIdle
    /\ StoreIdle
    /\ contentSourceCache = [n \in SectionNumbers |-> [p \in Providers |-> NullHtml]]
    /\ activation = [n \in SectionNumbers |-> NotActivated]
    /\ alignment = NoAlignment
    /\ switching = [n \in SectionNumbers |-> NotSwitched]
    /\ \E titleValid \in BOOLEAN, translated \in BOOLEAN :
           publish = [NotPublishing EXCEPT !.titleValid = titleValid,
                                           !.translated = translated]

PublishCommit(handler, b) ==
    /\ publish' = [b EXCEPT !.handler = handler]
    /\ UNCHANGED <<contentSourceCache, activation, alignment, switching>>
    /\ UNCHANGED trackerVars
    /\ UNCHANGED calcVars
    /\ UNCHANGED issueVars
    /\ UNCHANGED alignVars
    /\ UNCHANGED storeVars

PublishEvent(b) == [b EXCEPT !.events = @ + 1]
Listening == publish.events < MaxPublishEvents

\* a click on the publish button, which is enabled
PublishButtonClick ==
    /\ Listening
    /\ ~publish.disabled
    /\ ~publish.publishing
    /\ PublishCommit("onPublishButtonClick",
           onPublishButtonClick([PublishEvent(publish) EXCEPT !.publishing = TRUE]))

\* the publishing ends
PublishCancel ==
    /\ publish.publishing
    /\ PublishCommit("onPublishCancel",
           onPublishCancel([publish EXCEPT !.publishing = FALSE]))

PublishSuccess ==
    /\ publish.publishing
    /\ PublishCommit("onPublishSuccess",
           onPublishSuccess([publish EXCEPT !.publishing = FALSE]))

PublishFailure ==
    /\ publish.publishing
    /\ PublishCommit("onPublishFailure",
           onPublishFailure([publish EXCEPT !.publishing = FALSE]))

\* contentChange: a transaction of the translator, or of content that arrives
ContentChange ==
    /\ Listening
    /\ PublishCommit("onChange", onChange(PublishEvent(publish)))

\* mw.hook( 'mw.cx.progress' ) is fired with the weights
ProgressFired(any) ==
    /\ Listening
    /\ PublishCommit("progress", onProgress(PublishEvent(publish), any))

TranslationIssues(hasErrors) ==
    /\ Listening
    /\ PublishCommit("onTranslationIssues",
           onTranslationIssues(PublishEvent(publish), hasErrors))

IssuesResolved ==
    /\ Listening
    /\ PublishCommit("onIssuesResolved", onIssuesResolved(PublishEvent(publish)))

TranslationRestore ==
    /\ Listening
    /\ PublishCommit("onTranslationRestore",
           onTranslationRestore(PublishEvent(publish)))

\* the title of the translation is changed, sections are translated
PageNameChange(titleValid, translated) ==
    /\ Listening
    /\ <<titleValid, translated>> # <<publish.titleValid, publish.translated>>
    /\ PublishCommit("onTargetTitleChange",
           [PublishEvent(publish) EXCEPT !.titleValid = titleValid,
                                         !.translated = translated])

PublishNext ==
    \/ PublishButtonClick
    \/ PublishCancel
    \/ PublishSuccess
    \/ PublishFailure
    \/ ContentChange
    \/ \E any \in 0..1 : ProgressFired(any)
    \/ \E hasErrors \in BOOLEAN : TranslationIssues(hasErrors)
    \/ IssuesResolved
    \/ TranslationRestore
    \/ \E titleValid \in BOOLEAN, translated \in BOOLEAN :
           PageNameChange(titleValid, translated)

SpecPublish == PublishInit /\ [][PublishNext]_vars


(***************************************************************************)
(* A translation session with its clock: the validation timer fires when   *)
(* its wait has passed.                                                    *)
(***************************************************************************)
Later(seconds) ==
    IF seconds + TickSeconds > ValidationDelay THEN ValidationDelay
    ELSE seconds + TickSeconds

\* time passes; a timer whose wait is over fires before more time passes
Tick ==
    /\ Running
    /\ validationTimer => validationElapsed < ValidationDelay
    /\ (validationTimer /\ validationElapsed < ValidationDelay)
           \/ sinceNonFresh < ValidationDelay
    /\ validationElapsed' =
           IF validationTimer THEN Later(validationElapsed) ELSE validationElapsed
    /\ sinceNonFresh' = Later(sinceNonFresh)
    /\ UNCHANGED <<sections, validationDelayQueue, changeQueue, saveQueue,
                   lastFocusedSection, validationTimer, sourceLanguage,
                   targetLanguage, targetDoc, initialized, events, lastCall,
                   freshContent>>
    /\ UNCHANGED calcVars
    /\ UNCHANGED issueVars
    /\ UNCHANGED alignVars
    /\ UNCHANGED targetVars
    /\ UNCHANGED storeVars

\* setTimeout( later, wait ) of the debounced processValidationQueue
ValidationTimeout ==
    /\ validationElapsed >= ValidationDelay
    /\ ValidationTimerFires

\* the focus moves into a section, at any time
FocusMoves(n) ==
    /\ Running
    /\ targetDoc[n].kind = "section"
    /\ Commit("onSectionFocus", onSectionFocus(World, n))
    /\ UNCHANGED events
    /\ UNCHANGED initialized

NextTimed ==
    \/ Initialize
    \/ \E n \in SectionNumbers, provider \in Providers, childType \in ChildTypes :
           EditorTranslate(n, provider, childType)
    \/ \E n \in SectionNumbers, size \in EditSizes : EditorEdit(n, size)
    \/ \E n \in SectionNumbers : EditorUndo(n)
    \/ \E n \in SectionNumbers : EditorRemove(n)
    \/ ProcessChangeQueue
    \/ \E n \in SectionNumbers : FocusMoves(n)
    \/ Tick
    \/ ValidationTimeout

SpecTimed == Init /\ [][NextTimed]_vars


(***************************************************************************)
(* Properties of calculateUnmodifiedContent                                *)
(***************************************************************************)
\* the call of calculateUnmodifiedContent that the claims C9 and C10 speak of:
\* both strings non-empty and different
UnmodifiedContentCalled ==
    /\ called = "calculateUnmodifiedContent"
    /\ string1 # <<>>
    /\ string2 # <<>>
    /\ string1 # string2

\* the larger and the smaller token sequence; of two sequences of the same
\* length the one of string1 is the larger
LargerTokens ==
    IF Len(tokenise(string2, language)) > Len(tokenise(string1, language))
    THEN tokenise(string2, language)
    ELSE tokenise(string1, language)
SmallerTokens ==
    IF Len(tokenise(string2, language)) > Len(tokenise(string1, language))
    THEN tokenise(string1, language)
    ELSE tokenise(string2, language)
\* how many positions of the sequence xs hold a token that occurs in ys
Occurring(xs, ys) ==
    Cardinality({i \in 1..Len(xs) : \E j \in 1..Len(ys) : ys[j] = xs[i]})

\* C9 (as amended): for non-empty, different inputs the result is the number
\* of tokens of the LARGER token sequence that also occur in the smaller
\* one, divided by the token count of the larger sequence; 'The cat sat'
\* against 'The cat sat on the mat' gives 3/6.
C9_LargerTokensFoundInSmaller ==
    UnmodifiedContentCalled =>
        /\ result = <<Occurring(LargerTokens, SmallerTokens), Len(LargerTokens)>>
        /\ (string1 = TheCatSat /\ string2 = TheCatSatOnTheMat /\ language = "en")
               => result = <<3, 6>>

\* C9, witness: a token of the smaller sequence is repeated in the larger
\* one, and each repetition is counted.
C9_RepeatedTokenCounted ==
    /\ UnmodifiedContentCalled
    /\ language = "ja"
    /\ string1 = <<"a">>
    /\ string2 = <<"a", "a", "b">>
    /\ result = <<2, 3>>

\* C9 (as claimed): the result is the number of tokens of the SMALLER
\* sequence that also occur in the larger one, divided by the token count of
\* the larger sequence.
C9_SmallerTokensFoundInLarger ==
    UnmodifiedContentCalled =>
        result = <<Occurring(SmallerTokens, LargerTokens), Len(LargerTokens)>>

\* r is a number between 0 and 1
InUnitInterval(r) == r[2] > 0 /\ 0 <= r[1] /\ r[1] <= r[2]

\* C10: for non-empty strings s1 # s2 and every language the result is a
\* number r with 0 <= r <= 1.
C10_ResultInUnitInterval ==
    UnmodifiedContentCalled => InUnitInterval(result)

\* two ratios are the same number (NaN taken as the same as NaN)
SameRatio(r, t) ==
    IF IsNaN(r) \/ IsNaN(t)
    THEN IsNaN(r) /\ IsNaN(t)
    ELSE r[1] * t[2] = t[1] * r[2]

\* C11: calculateUnmodifiedContent gives the same ratio when its two string
\* arguments are swapped, for all pairs of strings and every language.
C11_SwappedArgumentsSameRatio ==
    called = "calculateUnmodifiedContent" =>
        SameRatio(result, calculateUnmodifiedContent(string2, string1, language))

(***************************************************************************)
(* Properties of calculateSectionTranslationProgress and tokenise          *)
(***************************************************************************)
\* the positions of string where a maximal run of non-whitespace starts
RunStarts(string) ==
    {i \in 1..Len(string) :
        string[i] \notin Whitespace /\ (i = 1 \/ string[i - 1] \in Whitespace)}
\* the position where the run that starts at i ends
RunEnd(string, i) ==
    CHOOSE j \in i..Len(string) :
        /\ \A k \in i..j : string[k] \notin Whitespace
        /\ j = Len(string) \/ string[j + 1] \in Whitespace
\* the number of tokens of a string: characters for a CJK language, words
\* for any other
TokenCount(string, lang) ==
    IF lang \in CJKLanguages THEN Len(string) ELSE Cardinality(RunStarts(string))
WhitespaceOnly(string) == \A i \in 1..Len(string) : string[i] \in Whitespace

C13_BlankInputNoTokens ==
    called = "tokenise" =>
        /\ WhitespaceOnly(string1) => result = <<>>
        /\ language \notin CJKLanguages =>
              /\ Len(result) = Cardinality(RunStarts(string1))
              /\ \A i \in RunStarts(string1) :
                    result[Cardinality({j \in RunStarts(string1) : j <= i})] =
                        SubSeq(string1, i, RunEnd(string1, i))

\* the positions of string where a character starts: every code unit but the
\* second one of a surrogate pair
CharacterStarts(string) ==
    {i \in 1..Len(string) :
        ~(/\ string[i] = LowSurrogate
          /\ i > 1
          /\ string[i - 1] = HighSurrogate)}

\* C14: for a CJK language tokenise of a string of N characters returns N
\* tokens, one per character, in order.
C14_OneTokenPerCharacter ==
    (called = "tokenise" /\ language \in CJKLanguages) =>
        /\ Len(result) = Cardinality(CharacterStarts(string1))
        /\ \A i \in CharacterStarts(string1) :
              LET k == Cardinality({j \in CharacterStarts(string1) : j <= i})
              IN  /\ k <= Len(result)
                  /\ result[k][1] = string1[i]

\* r is a finite number: neither NaN nor an infinity
IsFinite(r) == r[2] > 0

\* C15: for every pair of strings, the empty and the whitespace-only ones
\* included, calculateSectionTranslationProgress and
\* calculateUnmodifiedContent return a finite number.
C15_CalculatorsReturnFiniteNumber ==
    called \in {"calculateSectionTranslationProgress", "calculateUnmodifiedContent"}
        => IsFinite(result)


(***************************************************************************)
(* Properties of the tracker                                               *)
(***************************************************************************)
Processed == lastCall.log.processed
Validated == lastCall.log.validated
Visited == lastCall.log.visited
Spliced == lastCall.log.spliced
\* how often x occurs in a sequence
CountOf(seq, x) == Cardinality({i \in DOMAIN seq : seq[i] = x})
NoDuplicates(queue) ==
    \A i, j \in DOMAIN queue : i # j => queue[i] # queue[j]
\* the section's source text has fewer than ten tokens
BelowFloor(n) == Len(tokenise(sections[n].source.text, sourceLanguage)) < 10
\* the ratio r is over the threshold that goes with the provider
OverThreshold(r, provider) ==
    /\ r[2] > 0
    /\ IF provider = "source" THEN 10 * r[1] > 6 * r[2] ELSE 10 * r[1] > 8 * r[2]

\* C1: when processSectionChange finds a stored provider that differs from
\* the provider of the live content, the section ends with the new provider,
\* with the live content as its unmodifiedMT baseline and as its user
\* translation; and every validation of a section that went through such an
\* episode reads the baseline captured in the section's latest episode at the
\* time of the validation, and a ratio computed against it.
C1_FreshEpisodeCapturesNewBaseline ==
    /\ \A i \in DOMAIN Processed :
         Processed[i].outcome = "fresh" =>
            LET sectionState == sections[Processed[i].section]
            IN  /\ sectionState.currentMTProvider =
                       targetDoc[Processed[i].section].source
                /\ sectionState.currentMTProvider # Processed[i].previous
                /\ sectionState.unmodifiedMT.html = Processed[i].content
                /\ sectionState.userTranslation.html = Processed[i].content
    /\ \A i \in DOMAIN Validated :
         Validated[i].episode # NullHtml =>
            /\ Validated[i].baseline = Validated[i].episode
            /\ Validated[i].percentage =
                   calculateUnmodifiedContent(
                       TextOf(Validated[i].episode),
                       TextOf(Validated[i].current), targetLanguage)

\* C1, witness: a section restored with Google's translation was switched to
\* the source text, and the change was processed.
C1_EngineSwitchProcessed ==
    \E i \in DOMAIN Processed :
        /\ Processed[i].outcome = "fresh"
        /\ Processed[i].previous = "Google"
        /\ sections[Processed[i].section].currentMTProvider = "source"
        /\ sections[Processed[i].section].unmodifiedMT.html =
               SourceHtml(Processed[i].section)

\* C2: no queue ever holds a section number twice.
C2_NoDuplicatesInQueues ==
    /\ NoDuplicates(changeQueue)
    /\ NoDuplicates(validationDelayQueue)
    /\ NoDuplicates(saveQueue)

\* C2, witness: a placeholder was translated and then edited before the
\* change queue was drained; both changes pushed the section.
C2_PushedTwiceQueuedOnce ==
    \E n \in SectionNumbers :
        /\ initialized
        /\ events = 2
        /\ targetDoc[n].html = Paragraph(GoogleAlphabet, 7)
        /\ sections[n].currentMTProvider = NoProvider
        /\ changeQueue = <<n>>
        /\ saveQueue = <<n>>

\* C3: no drain removes an entry from its queue without having processed
\* it, also when a listener called from inside the drain drains or pushes
\* the same queue: a section is taken out of the validation queue at most as
\* often as it was validated, and out of the change queue at most as often
\* as its change was processed.
C3_NothingRemovedUnprocessed ==
    \A n \in SectionNumbers :
        /\ CountOf(Spliced, [queue |-> "validation", section |-> n])
               <= CountOf(Visited, n)
        /\ CountOf(Spliced, [queue |-> "change", section |-> n])
               <= Cardinality({i \in DOMAIN Processed : Processed[i].section = n})

\* C4: a drain processes every entry that was in its queue exactly once and
\* leaves the queue empty, and the same drain run again at once processes
\* nothing and changes nothing.
C4_DrainEmptiesQueue ==
    [][/\ lastCall'.op = "processValidationQueue" =>
            /\ validationDelayQueue' = <<>>
            /\ \A n \in SectionNumbers :
                   CountOf(Visited', n) = CountOf(validationDelayQueue, n)
            /\ processValidationQueue(World') = World'
       /\ lastCall'.op = "processChangeQueue" =>
            /\ changeQueue' = <<>>
            /\ \A n \in SectionNumbers :
                   Cardinality({i \in DOMAIN Processed' : Processed'[i].section = n})
                       = CountOf(changeQueue, n)
            /\ processChangeQueue(World') = World']_vars

\* C5: a step that leaves a section's provider as it was leaves its
\* unmodifiedMT baseline, once captured, as it was.
C5_BaselineFrozen ==
    [][initialized =>
          \A n \in SectionNumbers :
              (/\ sections'[n].currentMTProvider = sections[n].currentMTProvider
               /\ ~IsFalsy(sections[n].unmodifiedMT.html))
                  => sections'[n].unmodifiedMT = sections[n].unmodifiedMT]_vars

\* C5, witness: an edit of a section translated by Google was processed; the
\* user's text differs from the baseline, which is still Google's.
C5_EditProcessedBaselineKept ==
    \E i \in DOMAIN Processed :
        /\ Processed[i].outcome = "change"
        /\ Processed[i].content = Paragraph(GoogleAlphabet, 7)
        /\ sections[Processed[i].section].userTranslation.html =
               Paragraph(GoogleAlphabet, 7)
        /\ sections[Processed[i].section].unmodifiedMT.html =
               Paragraph(GoogleAlphabet, FullSize)

\* C6: a validated section with at least ten source tokens is flagged
\* exactly when its unmodified ratio is over 0.6 (provider 'source') or over
\* 0.8 (any other provider).
C6_FlaggedIffOverThreshold ==
    \A i \in DOMAIN Validated :
        ~BelowFloor(Validated[i].section) =>
            (Validated[i].verdict = "flagged"
                <=> OverThreshold(Validated[i].percentage, Validated[i].provider))

\* C6, witness: content copied from the source with seven of ten tokens
\* unmodified was validated and flagged; 0.7 is not over 0.8.
C6_SourceCopyFlaggedBelowMTThreshold ==
    \E i \in DOMAIN Validated :
        /\ Validated[i].provider = "source"
        /\ Validated[i].percentage = <<7, 10>>
        /\ Validated[i].verdict = "flagged"
        /\ ~OverThreshold(Validated[i].percentage, "Google")

\* C7: a section whose source has fewer than ten tokens is never flagged:
\* no validation flags it and its node never carries 'mt-abuse'.
C7_ShortSectionNeverFlagged ==
    initialized =>
        \A n \in SectionNumbers :
            BelowFloor(n) =>
                /\ ~Includes(targetDoc[n].issues, "mt-abuse")
                /\ \A i \in DOMAIN Validated :
                       Validated[i].section = n => Validated[i].verdict = "cleared"

\* C7, witness: a section of nine source tokens holding unmodified machine
\* translation (ratio 1) was validated and not flagged.
C7_ShortSectionValidated ==
    \E i \in DOMAIN Validated :
        /\ BelowFloor(Validated[i].section)
        /\ Validated[i].percentage = One
        /\ Validated[i].verdict = "cleared"
        /\ ~Includes(targetDoc[Validated[i].section].issues, "mt-abuse")

ProgressReturned ==
    lastCall.op = "getTranslationProgress" /\ ~lastCall.threw
\* the sections with user content that is not blank
TranslatedSections ==
    {n \in DOMAIN sections : sections[n].userTranslation.text # EmptyString}
\* of those, the sections whose content is the MT baseline
UnmodifiedSections ==
    {n \in TranslatedSections :
        sections[n].userTranslation.html = sections[n].unmodifiedMT.html}

DerivedFieldsFresh(n) ==
    /\ sections[n].unmodifiedPercentage =
           calculateUnmodifiedContent(sections[n].unmodifiedMT.text,
                                      sections[n].userTranslation.text,
                                      targetLanguage)
    /\ sections[n].translationProgressPercentage =
           calculateSectionTranslationProgress(sections[n].source.text,
                                               sections[n].userTranslation.text,
                                               targetLanguage)

\* C17: the unmodifiedPercentage that a validation reads is what a
\* recomputation from the section's baseline and user translation gives; and
\* when getTranslationProgress returns, changeQueue is empty and the derived
\* fields of every section it classified are what a recomputation gives.
C17_DerivedFieldsNeverStale ==
    /\ \A i \in DOMAIN Validated :
           Validated[i].percentage =
               calculateUnmodifiedContent(TextOf(Validated[i].baseline),
                                          TextOf(Validated[i].current),
                                          targetLanguage)
    /\ ProgressReturned =>
           /\ changeQueue = <<>>
           /\ \A n \in DOMAIN sections : DerivedFieldsFresh(n)

\* C17, witness: an edited section was processed and then validated with a
\* ratio strictly between 0 and 1.
C17_EditedSectionValidated ==
    \E i \in DOMAIN Validated :
        /\ Validated[i].baseline # Validated[i].current
        /\ Validated[i].percentage[1] > 0
        /\ Validated[i].percentage[1] < Validated[i].percentage[2]

\* C18: once init has run the sections map has exactly one state per source
\* section number, whatever is done later, and a section that was found to
\* be a placeholder has been reset in place.
C18_OneStatePerSourceSection ==
    initialized =>
        /\ DOMAIN sections = SectionNumbers
        /\ \A n \in SectionNumbers : sections[n].source.html = SourceHtml(n)
        /\ \A i \in DOMAIN Processed :
               Processed[i].outcome = "placeholder" =>
                   /\ sections[Processed[i].section].currentMTProvider = NoProvider
                   /\ sections[Processed[i].section].userTranslation.html = EmptyString

\* C18, witness: a translated section became a placeholder by undo and the
\* change was processed.
C18_PlaceholderResetInPlace ==
    \E i \in DOMAIN Processed :
        /\ Processed[i].outcome = "placeholder"
        /\ Processed[i].previous # NoProvider
        /\ Processed[i].section \in DOMAIN sections
        /\ sections[Processed[i].section].userTranslation.html = EmptyString


(***************************************************************************)
(* Properties of the issue registry                                        *)
(***************************************************************************)
\* id a stands before id b in the documented order: 'global', 'title', then
\* the section numbers ascending
StandsBefore(a, b) ==
    \/ a.isString /\ ~b.isString
    \/ a = StringId("global") /\ b = StringId("title")
    \/ ~a.isString /\ ~b.isString /\ a.number < b.number

\* C19: after any sequence of calls of setTranslationIssues, nodesWithIssues
\* holds exactly the ids whose last call had state = true, each once, the
\* strings first ('global' before 'title'), then the section numbers
\* ascending.
C19_RegistrySortedSet ==
    /\ \A id \in IssueIds :
           CountOf(nodesWithIssues, id) = IF issueCalls[id] = "true" THEN 1 ELSE 0
    /\ \A i, j \in DOMAIN nodesWithIssues :
           i < j => StandsBefore(nodesWithIssues[i], nodesWithIssues[j])

\* C19, witness: section 2 was reported and then resolved; the registry holds
\* 'global', 'title', 1 and 3, in this order.
C19_ResolvedIdLeftTheRegistry ==
    /\ issueCalls[NumberId(2)] = "false"
    /\ nodesWithIssues =
           <<StringId("global"), StringId("title"), NumberId(1), NumberId(3)>>

(***************************************************************************)
(* Properties of keepAlignment                                             *)
(***************************************************************************)
\* the min-heights that the call has set on the translation section and on
\* the source section
TargetAssigned == SelectSeq(alignCall.assigned, LAMBDA e : e.element = "target")
SourceAssigned == SelectSeq(alignCall.assigned, LAMBDA e : e.element = "source")

\* C20: when the translation section is shorter than the source section, its
\* min-height is raised in steps of 10 px from its height (70 -> 80 -> 90 ->
\* 100 for a source of 100 px) and the source is left alone; when the source
\* section is shorter, the source is grown.
C20_ShorterSideGrownInSteps ==
    (alignCall.called /\ sectionPair.tagName # "TABLE") =>
        /\ alignCall.measured.target < alignCall.measured.source =>
              /\ TargetAssigned # <<>>
              /\ \A k \in DOMAIN TargetAssigned :
                    TargetAssigned[k].value = alignCall.measured.target + k * Step
              /\ SourceAssigned = <<>>
        /\ alignCall.measured.source < alignCall.measured.target =>
              /\ SourceAssigned # <<>>
              /\ SourceAssigned[1].value = alignCall.measured.target


\* the passes of the loop of 10 px steps that the call has made: the loop is
\* in the branch where the source section is shorter, and each pass sets the
\* min-height of the translation section once
LoopPasses ==
    IF alignCall.measured.source < alignCall.measured.target
    THEN Len(TargetAssigned)
    ELSE 0

\* C21: whatever the layout does, the call makes at most 10 passes of the
\* loop that raises the height; when the heights still differ after that it
\* has aborted and logged.
C21_AtMostTenIncrements ==
    alignCall.called =>
        /\ LoopPasses <= MaxSteps
        /\ height(sectionPair.section) # height(sectionPair.sourceSection)
               /\ alignCall.measured.source < alignCall.measured.target
               => alignCall.aborted

\* the chain of the default provider of section n has delivered its content
FallbackDelivered(n) ==
    activation[n].stage = "fallback" /\ activation[n].promise = "resolved"

\* C22: when the machine translation of an activated placeholder fails, the
\* user is notified and the content is requested from the default provider
\* that is not a machine translation; once that request succeeds the section
\* holds that content and is no placeholder.
C22_FailedActivationFallsBack ==
    \A n \in SectionNumbers :
        activation[n].failed =>
            /\ activation[n].notified = 1
            /\ activation[n].stage = "fallback"
            /\ FallbackDelivered(n) =>
                   /\ targetDoc[n].kind = "section"
                   /\ targetDoc[n].source = DefaultNonMTProvider
                   /\ targetDoc[n].source \notin MTProviders
                   /\ targetDoc[n].html \in {SourceHtml(n),
                                             CachedContent(DefaultNonMTProvider)}

\* witness: the translation service failed and the source content arrived
C22_FallbackFilledTheSection ==
    \E n \in SectionNumbers :
        /\ activation[n].failed
        /\ activation[n].provider = DefaultNonMTProvider
        /\ FallbackDelivered(n)
        /\ targetDoc[n].html = SourceHtml(n)

\* the sections of the records of a log field
SectionsOf(records) == {records[j].section : j \in 1..Len(records)}
\* the drain that ends in the next state made one call of processSectionChange
\* and returned
OneSectionProcessed(outcome) ==
    /\ lastCall'.op = "processChangeQueue"
    /\ ~lastCall'.threw
    /\ Len(lastCall'.log.processed) = 1
    /\ lastCall'.log.processed[1].outcome = outcome
ProcessedSection == lastCall'.log.processed[1].section

\* C23: when processSectionChange handles a fresh episode of section s, every
\* other section that was pending in validationDelayQueue is validated during
\* the call, s itself is not validated during the call, and s is in
\* validationDelayQueue on return.
C23_FreshEpisodeDefersOwnValidation ==
    [][OneSectionProcessed("fresh") =>
         /\ \A j \in 1..Len(validationDelayQueue) :
                validationDelayQueue[j] # ProcessedSection =>
                    /\ InQueue(lastCall'.log.visited, validationDelayQueue[j])
                    /\ ~InQueue(validationDelayQueue', validationDelayQueue[j])
         /\ ProcessedSection \notin SectionsOf(lastCall'.log.validated)
         /\ ~InQueue(lastCall'.log.visited, ProcessedSection)
         /\ InQueue(validationDelayQueue', ProcessedSection)]_vars

\* the last handler was the flush that the validation timer drives
TimerFlushed == lastCall.op = "processValidationQueue"

\* C24: the validation timer is one for all sections: the flush it drives
\* runs only when 15 seconds have passed without a processed change that
\* opened no fresh episode, no other timer is pending after it, and when it
\* has gone through the queue, which holds every section changed in the
\* burst, the queue is empty.
C24_OneFlushAfterQuietPeriod ==
    /\ TimerFlushed =>
           /\ sinceNonFresh >= ValidationDelay
           /\ ~validationTimer
           /\ ~lastCall.threw => validationDelayQueue = <<>>
    /\ validationTimer => validationElapsed <= sinceNonFresh

\* witness: one flush validated two sections that were changed at different
\* times
C24_BurstValidatedByOneFlush ==
    /\ TimerFlushed
    /\ ~lastCall.threw
    /\ SectionsOf(lastCall.log.validated) = SectionNumbers

\* C25: onSectionFocus flushes the whole validationDelayQueue at once when the
\* focused section differs from lastFocusedSection, validates nothing when it
\* is the same section, and in both cases ends with lastFocusedSection equal
\* to the focused section.
C25_FocusFlushesOnChangeOfSection ==
    [][\A n \in SectionNumbers :
           FocusMoves(n) =>
               /\ lastFocusedSection' = n
               /\ lastFocusedSection # n =>
                      /\ validationDelayQueue' = <<>>
                      /\ \A j \in 1..Len(validationDelayQueue) :
                             InQueue(lastCall'.log.visited, validationDelayQueue[j])
               /\ lastFocusedSection = n =>
                      /\ lastCall'.log.visited = <<>>
                      /\ lastCall'.log.validated = <<>>
                      /\ validationDelayQueue' = validationDelayQueue
                      /\ targetDoc' = targetDoc]_vars

\* a queue without the entries for a section
Without(queue, sectionNumber) == SelectSeq(queue, LAMBDA x : x # sectionNumber)

\* C26: when processSectionChange finds a placeholder in the place of the
\* section, the provider and the user's content of the section are cleared,
\* the section is in neither validationDelayQueue nor saveQueue afterwards,
\* and nothing else is done: no progress is recomputed, nothing is validated,
\* queued for validation or scheduled.
C26_PlaceholderClearedAndPurged ==
    [][OneSectionProcessed("placeholder") =>
         /\ sections'[ProcessedSection].currentMTProvider = NoProvider
         /\ sections'[ProcessedSection].userTranslation = Content(EmptyString)
         /\ validationDelayQueue' = Without(validationDelayQueue, ProcessedSection)
         /\ saveQueue' = Without(saveQueue, ProcessedSection)
         /\ sections'[ProcessedSection].unmodifiedPercentage
                = sections[ProcessedSection].unmodifiedPercentage
         /\ sections'[ProcessedSection].translationProgressPercentage
                = sections[ProcessedSection].translationProgressPercentage
         /\ DOMAIN sections' = DOMAIN sections
         /\ \A n \in DOMAIN sections \ {ProcessedSection} : sections'[n] = sections[n]
         /\ lastCall'.log.visited = <<>>
         /\ lastCall'.log.validated = <<>>
         /\ validationTimer' = validationTimer
         /\ validationElapsed' = validationElapsed
         /\ lastFocusedSection' = lastFocusedSection
         /\ targetDoc' = targetDoc]_vars

\* witness: a translated section that was pending for validation and for
\* saving was undone and processed
C26_UndoneSectionPurged ==
    /\ lastCall.op = "processChangeQueue"
    /\ ~lastCall.threw
    /\ Len(lastCall.log.processed) = 1
    /\ lastCall.log.processed[1].outcome = "placeholder"
    /\ lastCall.log.processed[1].previous \in Providers
    /\ lastCall.log.warned = <<>>
    /\ sections[lastCall.log.processed[1].section].unmodifiedPercentage # Zero
    /\ validationDelayQueue = <<>>
    /\ saveQueue = <<>>

\* the drain that ends in the next state made one call of processSectionChange,
\* for a section whose node was not found
MissingNodeProcessed ==
    /\ lastCall'.op = "processChangeQueue"
    /\ Len(lastCall'.log.processed) = 1
    /\ lastCall'.log.processed[1].outcome = "null"

\* C27: processSectionChange for a section whose target node is not found
\* does nothing: it raises no error and leaves the section states,
\* validationDelayQueue, saveQueue and the validation timer as they were.
C27_MissingNodeIsNoOp ==
    [][MissingNodeProcessed =>
         /\ ~lastCall'.threw
         /\ sections' = sections
         /\ validationDelayQueue' = validationDelayQueue
         /\ saveQueue' = saveQueue
         /\ validationTimer' = validationTimer
         /\ validationElapsed' = validationElapsed
         /\ lastCall'.log.visited = <<>>
         /\ lastCall'.log.warned = <<>>
         /\ targetDoc' = targetDoc]_vars

\* witness: the change of a section that lost its node was processed while
\* the section was pending for validation and for saving
C27_RemovedSectionStaysQueued ==
    /\ lastCall.op = "processChangeQueue"
    /\ ~lastCall.threw
    /\ Len(lastCall.log.processed) = 1
    /\ lastCall.log.processed[1].outcome = "null"
    /\ InQueue(validationDelayQueue, lastCall.log.processed[1].section)
    /\ InQueue(saveQueue, lastCall.log.processed[1].section)
    /\ changeQueue = <<>>

\* the sections that the session found translated when it was restored
RestoredSections == {n \in SectionNumbers : targetDoc[n].kind = "section"}
InitReturned == lastCall.op = "init"

\* C28: init with restored sections processes them without delay and is not
\* stopped by a saved progress that differs from the recomputed one: the
\* mismatch is only logged, the restored sections are change-processed and
\* validated, the focus listeners are attached, and changeQueue and
\* validationDelayQueue are empty when init returns.
C28_InitProcessesRestoredSections ==
    InitReturned =>
        /\ ~lastCall.threw
        /\ SectionsOf(lastCall.log.processed) = RestoredSections
        /\ \A n \in RestoredSections : InQueue(lastCall.log.visited, n)
        /\ SectionsOf(lastCall.log.validated) = RestoredSections
        /\ \A n \in RestoredSections : InQueue(lastCall.log.attached, n)
        /\ changeQueue = <<>>
        /\ validationDelayQueue = <<>>
        /\ \A j \in 1..Len(lastCall.log.errors) : lastCall.log.errors[j] = "mismatch"

\* witness: init returned after it had logged a mismatch for a draft with
\* restored sections
C28_MismatchLoggedInitCompleted ==
    /\ InitReturned
    /\ lastCall.log.errors = <<"mismatch">>
    /\ RestoredSections = SectionNumbers
    /\ Len(lastCall.log.validated) = NumSections

\* C29: removeSectionFromSaveQueue for a section that is not in saveQueue does
\* not throw, leaves saveQueue and the other queues as they were and only
\* logs a warning; for a section that is in saveQueue it removes exactly that
\* entry.
C29_RemoveFromSaveQueue ==
    [][\A n \in SectionNumbers :
           SectionSaved(n) =>
               /\ ~lastCall'.threw
               /\ changeQueue' = changeQueue
               /\ validationDelayQueue' = validationDelayQueue
               /\ sections' = sections
               /\ InQueue(saveQueue, n) =>
                      /\ saveQueue' = Without(saveQueue, n)
                      /\ Len(saveQueue') = Len(saveQueue) - 1
                      /\ lastCall'.log.warned = <<>>
               /\ ~InQueue(saveQueue, n) =>
                      /\ saveQueue' = saveQueue
                      /\ lastCall'.log.warned = <<n>>]_vars

\* witness: a section that was not in saveQueue was reported saved while
\* another section was waiting there
C29_AbsentSectionOnlyWarned ==
    /\ lastCall.op = "removeSectionFromSaveQueue"
    /\ Len(lastCall.log.warned) = 1
    /\ saveQueue # <<>>
    /\ ~InQueue(saveQueue, lastCall.log.warned[1])

\* C30: the alignment is debounced, the last request wins: every transaction
\* of the target document emits contentChange and requests the alignment, and
\* a burst of transactions, title changes and resizes whose requests follow
\* each other within less than 500 ms gets one run of alignSectionPairs, made
\* when 500 ms have passed since the last request.
C30_OneAlignmentAfterLastRequest ==
    /\ [][alignment'.transactions > alignment.transactions =>
             /\ alignment'.contentChanges - alignment.contentChanges
                    = alignment'.transactions - alignment.transactions
             /\ "transact" \in alignment'.unserved
             /\ alignment'.pending
             /\ alignment'.elapsed = 0]_vars
    /\ [](/\ alignment.unserved # {} <=> alignment.pending
          /\ alignment.pending => alignment.elapsed = alignment.sinceRequest
          /\ alignment.ran => alignment.quiet >= AlignDelay)

\* witness: one run followed a burst of a transaction, a title change and a
\* resize
C30_BurstAlignedOnce ==
    /\ alignment.ran
    /\ alignment.served = {"transact", "title", "resize"}
    /\ ~alignment.pending

\* C31: a switch to a provider that the section has left before, without
\* noCache, puts into the section exactly what the section held when it
\* last left that provider, and does not ask the MT service; a switch
\* with noCache always asks the MT service
C31_SwitchBackRestoresCached ==
    [][\A n \in SectionNumbers, p \in Providers :
        /\ (SwitchContentSource(n, p, FALSE)
               /\ switching'[n].left[p] # NullHtml)
            => /\ targetDoc'[n].kind = "section"
               /\ targetDoc'[n].source = p
               /\ targetDoc'[n].html = switching'[n].left[p]
               /\ switching'[n].requests = switching[n].requests
        /\ SwitchContentSource(n, p, TRUE)
            => /\ switching'[n].requests = switching[n].requests + 1
               /\ p \in switching'[n].pending
               /\ targetDoc'[n] = targetDoc[n]]_vars

\* a section that was edited, switched to another provider and back holds
\* the edited content again, and the MT service was asked once
C31_EditedContentRestored ==
    \E n \in SectionNumbers :
        /\ switching[n].switches = 2
        /\ switching[n].requests = 1
        /\ switching[n].pending = {}
        /\ targetDoc[n].kind = "section"
        /\ targetDoc[n].html = Paragraph(AlphabetOf(targetDoc[n].source), 8)
        /\ targetDoc[n].html = switching[n].left[targetDoc[n].source]
        /\ \E q \in Providers \ {targetDoc[n].source} :
               switching[n].left[q] = ProviderContent(q, n)

\* the sections of the target document that declare the content source
\* 'source'
TranslatedFromSource ==
    {n \in SectionNumbers :
        targetDoc[n].kind = "section" /\ targetDoc[n].source = "source"}

\* C32: when init has returned, every section whose target node declares
\* the content source 'source' has the provider 'source' and its own source
\* html as unmodified MT; its change processing during init opened no
\* fresh episode, and it was validated against the source html with the
\* threshold 0.6
C32_SourceSectionsAdjusted ==
    (lastCall.op = "init" /\ ~lastCall.threw) =>
        \A n \in TranslatedFromSource :
            /\ sections[n].currentMTProvider = "source"
            /\ sections[n].unmodifiedMT.html = sections[n].source.html
            /\ sections[n].unmodifiedMT.html = SourceHtml(n)
            /\ getMTThresholdForSection(sections[n]) = <<6, 10>>
            /\ sections[n].unmodifiedPercentage =
                   calculateUnmodifiedContent(sections[n].source.text,
                       sections[n].userTranslation.text, targetLanguage)
            /\ \A i \in 1..Len(lastCall.log.processed) :
                   lastCall.log.processed[i].section = n
                       => lastCall.log.processed[i].outcome = "change"
            /\ \A i \in 1..Len(lastCall.log.validated) :
                   lastCall.log.validated[i].section = n
                       => /\ lastCall.log.validated[i].provider = "source"
                          /\ lastCall.log.validated[i].baseline = SourceHtml(n)

\* init has restored a section that was translated from the source and
\* edited, has processed its change and has validated it
C32_RestoredSourceSectionValidated ==
    /\ lastCall.op = "init"
    /\ ~lastCall.threw
    /\ \E n \in TranslatedFromSource :
        /\ sections[n].userTranslation.html # SourceHtml(n)
        /\ \E i \in 1..Len(lastCall.log.processed) :
               lastCall.log.processed[i].section = n
        /\ \E i \in 1..Len(lastCall.log.validated) :
               lastCall.log.validated[i].section = n

\* C33: when initializeMTProviders has completed with a list of supported
\* providers that is not empty, currentMTProvider is a member of the list:
\* the provider it was if that was one of the list, the first of the list
\* otherwise
C33_ProviderIsSupported ==
    (storeCall.op = "initializeMTProviders"
         /\ Len(storeCall.supportedProviders) > 0) =>
        /\ \E i \in 1..Len(storeCall.supportedProviders) :
               store.currentMTProvider = storeCall.supportedProviders[i]
        /\ store.currentMTProvider =
               IF \E i \in 1..Len(storeCall.supportedProviders) :
                      storeCall.previous = storeCall.supportedProviders[i]
               THEN storeCall.previous
               ELSE storeCall.supportedProviders[1]

\* the provider that the translator had picked is not supported by the
\* language pair, and the first supported provider took its place
C33_UnsupportedProviderReplaced ==
    /\ storeCall.op = "initializeMTProviders"
    /\ Len(storeCall.supportedProviders) = 2
    /\ storeCall.previous \in StoreProviders
    /\ store.currentMTProvider = storeCall.supportedProviders[1]
    /\ store.currentMTProvider # storeCall.previous

\* the sentences of the current source section that are selected
SelectedSentences ==
    {i \in 1..Len(store.sentences) : store.sentences[i].selected}

\* C39: whatever actions of selection and application were dispatched, at
\* most one sentence of the current source section is selected
C39_AtMostOneSentenceSelected == Cardinality(SelectedSentences) <= 1

\* a sentence was selected while another one was, and only the new one is
C39_SelectionMoved ==
    /\ storeCall.op = "selectSentenceForCurrentSection"
    /\ ~storeCall.threw
    /\ storeCall.steps >= 2
    /\ SelectedSentences = {3}

\* C40: the section title and a sentence are never selected together
C40_TitleExcludesSentence ==
    store.isSectionTitleSelectedForTranslation => SelectedSentences = {}

\* C37: while a publishing is in progress, from the click on the publish
\* button to onPublishCancel, onPublishSuccess or onPublishFailure, the
\* publish button is disabled
C37_DisabledWhilePublishing == publish.publishing => publish.disabled

\* C34: once the translator's events have ended and the scheduled timers
\* have fired, no section is left on validationDelayQueue: every section
\* that is queued is validated or purged in the end
C34_QueuedEventuallyValidated ==
    \A n \in SectionNumbers :
        InQueue(validationDelayQueue, n) ~> ~InQueue(validationDelayQueue, n)

\* C35: no validation flush, whether the timer, a move of the focus or a
\* drain of the change queue runs it, raises an error, and the warning
\* 'mt-abuse' is only on nodes that are live sections
C35_FlushSafeOnDeadNodes ==
    /\ lastCall.op \in {"processValidationQueue", "onSectionFocus",
                        "processChangeQueue"}
           => ~lastCall.threw
    /\ \A n \in SectionNumbers :
           InQueue(targetDoc[n].issues, "mt-abuse")
               => targetDoc[n].kind = "section"

C38_AfterTranslationFollowsContent ==
    \A n \in SectionNumbers :
        /\ activation[n].stage # "none" => activation[n].beforeTranslation
        /\ activation[n].afterTranslation =>
               /\ activation[n].beforeTranslation
               /\ targetDoc[n].kind = "section"
               /\ activation[n].promise \notin {"provider", "translating"}

=============================================================================
